---- MODULE Spec2Model ----
(***************************************************************************)
(* State-machine model of the scraping pipeline of IMBD-Scraper:           *)
(*   ProxyManager    backend/app/services/scraping/proxy_manager.py        *)
(*   IMDbScraper     backend/app/services/scraping/imdb_scraper.py         *)
(*   MediaDownloader backend/app/services/scraping/media_downloader.py     *)
(*   StorageService  backend/app/services/external/storage_service.py      *)
(***************************************************************************)
EXTENDS Integers, Sequences, FiniteSets, TLC

(***************************************************************************)
(* Bounds of the model                                                     *)
(***************************************************************************)
\* largest pool the proxy-manager specification builds
MaxProxies == 2
\* largest pool the rotation scenario builds
RotationPool == 4
\* longest run of consecutive rotate_proxy calls that is followed
MaxStreak == 5
\* cap on a proxy's failure_count (the counter is unbounded in the code)
MaxFailures == 11
\* cap on a proxy's success_count (the counter is unbounded in the code)
MaxSuccess == 1
\* largest pool a scraper is configured with
NavPool == 2
\* largest retries argument of navigate_to_page that is tried
MaxRetries == 3
\* cap on the number of initialize_browser calls
MaxLaunches == 3
\* cap on scraping_stats["pages_visited"] and scraping_stats["errors"]
MaxStat == 2
\* largest pool a downloader is configured with
DlPool == 2
\* number of download_media_file calls made
MaxDownloads == 2
\* largest batch given to download_multiple_files
MaxBatch == 3
\* largest max_concurrent passed explicitly
MaxConcurrent == 2
\* number of scrape_movie_details calls made
MaxScrapes == 2
\* largest max_pages given to search_movies
MaxPages == 3
\* number of search_movies calls made
MaxSearches == 2
\* largest pool given to get_best_proxy
MaxScored == 2
\* largest pool health_check is called on
HealthPool == 3
\* ProxyManager calls made on that pool
MaxOps == 2
\* downloads of one batch that are in flight together
Coroutines == 2
\* start requests made to the scraping API
MaxJobs == 3
\* largest success_count and failure_count of a proxy given to get_best_proxy
MaxScoreCount == 2
\* last second the wall clock reaches
MaxClock == 1

(***************************************************************************)
(* Program constants                                                       *)
(***************************************************************************)
\* remove_failed_proxies: failure_count > 10
FailureThreshold == 10
\* remove_failed_proxies: failure_count > success_count * 3
FailureRatio == 3
\* MediaDownloader.retry_attempts
RetryAttempts == 3
\* MediaDownloader.concurrent_downloads
ConcurrentDownloads == 5
\* get_best_proxy: the response time, in seconds, of the largest penalty
PenaltySeconds == 10
\* check_for_bot_detection: the number of bot_indicators
BotIndicators == 10
\* check_for_bot_detection: the number of captcha_selectors
CaptchaSelectors == 5
\* check_for_bot_detection: the confidence per indicator, 0.3, in tenths
ConfidenceStep == 3
\* check_for_bot_detection: the largest confidence, 1.0, in tenths
FullConfidence == 10
\* MediaDownloader.max_file_size
MaxFileSize == 100 * 1024 * 1024
\* base of the backoff: asyncio.sleep(2 ** attempt)
BackoffBase == 2

VARIABLES
    proxies,               \* ProxyManager.proxies: sequence of ProxyInfo
    current_proxy_index,   \* ProxyManager.current_proxy_index
    rotation_enabled,      \* ProxyManager.rotation_enabled
    last,                  \* the last ProxyManager call: its name, what it was
                           \* given, what it returned and the pool it started from
    streak,                \* rotate_proxy calls made in a row on an all-working pool
    streak_n,              \* size of the pool when that run of calls began
    origin,                \* host of the proxy that was current when it began
    visited,               \* hosts returned by the calls of the run, in order
    has_pm,                \* IMDbScraper.proxy_manager / MediaDownloader.proxy_manager is set
    browser,               \* IMDbScraper.browser: 0 for None, else the launch it came from
    context,               \* IMDbScraper.context, likewise
    page,                  \* IMDbScraper.page, likewise
    open_handles,          \* the Playwright handles <<kind, launch>> that are open
    launches,              \* initialize_browser calls made so far
    pages_visited,         \* scraping_stats["pages_visited"]
    errors,                \* scraping_stats["errors"]
    nav,                   \* the navigate_to_page call in progress or last finished
    files,                 \* names of the files in the download directories
    now,                   \* the wall clock, in seconds
    download_stats,        \* MediaDownloader.download_stats
    dl,                    \* the download_media_file call in progress or last finished
    prev,                  \* the download_media_file call finished before that one
    batch,                 \* the download_multiple_files call in progress or last finished
    movies_scraped,        \* scraping_stats["movies_scraped"]
    scrape,                \* the scrape_movie_details call in progress or last finished
    search,                \* the search_movies call in progress or last finished
    closing,               \* the last close_browser call that was observed
    detection,             \* the last check_for_bot_detection call
    best,                  \* the last get_best_proxy call
    health,                \* the health_check report of the step just taken
    coroutines,            \* the download_with_semaphore tasks running at once
    jobs,                  \* the scraping cache of the API: job records by job id
    api                    \* the last request to the scraping endpoints

pmVars == <<proxies, current_proxy_index, rotation_enabled, last>>
runVars == <<streak, streak_n, origin, visited>>
navVars == <<has_pm, browser, context, page, open_handles, launches,
             pages_visited, errors, nav>>

dlVars == <<files, now, download_stats, dl, prev>>
obsVars == <<health, coroutines, jobs, api>>
opVars == <<batch, movies_scraped, scrape, search, closing, detection, best, obsVars>>

vars == <<proxies, current_proxy_index, rotation_enabled, last,
          streak, streak_n, origin, visited,
          has_pm, browser, context, page, open_handles, launches,
          pages_visited, errors, nav,
          files, now, download_stats, dl, prev,
          batch, movies_scraped, scrape, search, closing, detection, best,
          health, coroutines, jobs, api>>

(***************************************************************************)
(* ProxyInfo and the pure part of ProxyManager                             *)
(***************************************************************************)

\* A proxy returned by a call is named by its position in the pool (1-based);
\* NoProxy stands for Python's None.
NoProxy == 0

\* ProxyInfo(host=h): counters at 0, is_working True.  host stands for the
\* identity fields (host, port, username, password, protocol); hosts in a
\* pool are pairwise distinct (add_proxy leaves dedup to its caller), so the
\* dataclass equality of two pool members is equality of their positions.
ProxyInfo(h) ==
    [host |-> h, success_count |-> 0, failure_count |-> 0, is_working |-> TRUE]

\* positions of the pool whose proxy has is_working set, in pool order:
\* [p for p in self.proxies if p.is_working]
working_proxies(ps) ==
    SelectSeq([i \in 1..Len(ps) |-> i], LAMBDA i : ps[i].is_working)

\* for proxy in self.proxies: proxy.is_working = True
ReenableAll(ps) == [i \in 1..Len(ps) |-> [ps[i] EXCEPT !.is_working = TRUE]]

\* get_current_proxy that gives up when no proxy is working, instead of
\* re-enabling the pool
get_current_proxy_no_reset(ps, idx) ==
    IF Len(ps) = 0 \/ Len(working_proxies(ps)) = 0
    THEN [proxies |-> ps, index |-> idx, ret |-> NoProxy]
    ELSE LET w == working_proxies(ps)
             i == IF idx >= Len(w) THEN 0 ELSE idx
         IN  [proxies |-> ps, index |-> i, ret |-> w[i + 1]]

\* get_current_proxy: the pool and index it leaves, and the position returned
get_current_proxy(ps, idx) ==
    IF Len(ps) = 0
    THEN [proxies |-> ps, index |-> idx, ret |-> NoProxy]
    ELSE LET healed == IF Len(working_proxies(ps)) = 0 THEN ReenableAll(ps) ELSE ps
             w      == working_proxies(healed)
             i      == IF idx >= Len(w) THEN 0 ELSE idx
         IN  [proxies |-> healed, index |-> i, ret |-> w[i + 1]]

\* rotate_proxy that forgets to look at rotation_enabled
rotate_proxy_always(ps, idx, rot) ==
    LET w == working_proxies(ps)
    IN  IF Len(w) = 0
        THEN get_current_proxy(ps, idx)
        ELSE get_current_proxy(ps, (idx + 1) % Len(w))

\* rotate_proxy
rotate_proxy(ps, idx, rot) ==
    IF ~rot \/ Len(ps) <= 1
    THEN get_current_proxy(ps, idx)
    ELSE LET w == working_proxies(ps)
         IN  IF Len(w) <= 1
             THEN get_current_proxy(ps, idx)
             ELSE get_current_proxy(ps, (idx + 1) % Len(w))

\* mark_proxy_failed(proxy) for the pool member at position i
mark_proxy_failed(ps, idx, rot, i) ==
    LET ps1 == [ps EXCEPT ![i].failure_count = @ + 1, ![i].is_working = FALSE]
        cur == get_current_proxy(ps1, idx)
    IN  IF cur.ret # NoProxy /\ cur.proxies[i] = cur.proxies[cur.ret]
        THEN [rotate_proxy(cur.proxies, cur.index, rot) EXCEPT !.ret = NoProxy]
        ELSE [cur EXCEPT !.ret = NoProxy]

\* mark_proxy_success(proxy) for the pool member at position i
mark_proxy_success(ps, i) ==
    [ps EXCEPT ![i].success_count = @ + 1, ![i].is_working = TRUE]

\* reset_proxy_stats
reset_proxy_stats(ps) ==
    [i \in 1..Len(ps) |->
        [ps[i] EXCEPT !.success_count = 0, !.failure_count = 0, !.is_working = TRUE]]

\* the condition under which remove_failed_proxies drops a proxy
PermanentlyFailed(p) ==
    /\ p.failure_count > FailureThreshold
    /\ p.failure_count > p.success_count * FailureRatio

\* a pruning that removes the proxies that are not working
remove_failed_proxies_not_working(ps) == SelectSeq(ps, LAMBDA p : p.is_working)

\* remove_failed_proxies: the pool it leaves
remove_failed_proxies(ps) == SelectSeq(ps, LAMBDA p : ~PermanentlyFailed(p))

\* a validate_proxy whose except branch leaves is_working as it was
validate_proxy_keeps_flag(p, ok) ==
    IF ok
    THEN [p EXCEPT !.success_count = @ + 1, !.is_working = TRUE]
    ELSE [p EXCEPT !.failure_count = @ + 1]

\* validate_proxy(proxy): the proxy it leaves, by the outcome of its probe
validate_proxy(p, ok) ==
    IF ok
    THEN [p EXCEPT !.success_count = @ + 1, !.is_working = TRUE]
    ELSE [p EXCEPT !.failure_count = @ + 1, !.is_working = FALSE]

\* validate_all_proxies: one validate_proxy per pool member; the probes of
\* one call all have the same outcome here (the network is up, or down)
validate_all_proxies(ps, ok) == [i \in 1..Len(ps) |-> validate_proxy(ps[i], ok)]

\* the smallest host name not in the pool (hosts are interchangeable)
FreshHost(ps) ==
    CHOOSE h \in 1..(Len(ps) + 1) : \A i \in 1..Len(ps) : ps[i].host # h

\* what a call is remembered by
Call(op, arg, ret, ps, idx) ==
    [op |-> op, arg |-> arg, ret |-> ret,
     pre_index |-> idx,
     pre_hosts |-> [i \in 1..Len(ps) |-> ps[i].host],
     pre_working |-> [i \in 1..Len(ps) |-> ps[i].is_working]]

(***************************************************************************)
(* ProxyManager: one action per method                                     *)
(***************************************************************************)

\* ProxyManager()
PMInit ==
    /\ proxies = <<>>
    /\ current_proxy_index = 0
    /\ rotation_enabled = TRUE
    /\ last = Call("init", NoProxy, NoProxy, <<>>, 0)

AddProxy ==
    /\ Len(proxies) < MaxProxies
    /\ proxies' = Append(proxies, ProxyInfo(FreshHost(proxies)))
    /\ last' = Call("add_proxy", NoProxy, NoProxy, proxies, current_proxy_index)
    /\ UNCHANGED <<current_proxy_index, rotation_enabled>>

GetCurrentProxy ==
    LET r == get_current_proxy(proxies, current_proxy_index)
    IN  /\ proxies' = r.proxies
        /\ current_proxy_index' = r.index
        /\ last' = Call("get_current_proxy", NoProxy, r.ret, proxies, current_proxy_index)
        /\ UNCHANGED rotation_enabled

RotateProxy ==
    LET r == rotate_proxy(proxies, current_proxy_index, rotation_enabled)
    IN  /\ proxies' = r.proxies
        /\ current_proxy_index' = r.index
        /\ last' = Call("rotate_proxy", NoProxy, r.ret, proxies, current_proxy_index)
        /\ UNCHANGED rotation_enabled

MarkProxyFailed ==
    \E i \in 1..Len(proxies) :
        /\ proxies[i].failure_count < MaxFailures
        /\ LET r == mark_proxy_failed(proxies, current_proxy_index, rotation_enabled, i)
           IN  /\ proxies' = r.proxies
               /\ current_proxy_index' = r.index
        /\ last' = Call("mark_proxy_failed", i, NoProxy, proxies, current_proxy_index)
        /\ UNCHANGED rotation_enabled

MarkProxySuccess ==
    \E i \in 1..Len(proxies) :
        /\ proxies[i].success_count < MaxSuccess
        /\ proxies' = mark_proxy_success(proxies, i)
        /\ last' = Call("mark_proxy_success", i, NoProxy, proxies, current_proxy_index)
        /\ UNCHANGED <<current_proxy_index, rotation_enabled>>

ResetProxyStats ==
    /\ proxies' = reset_proxy_stats(proxies)
    /\ last' = Call("reset_proxy_stats", NoProxy, NoProxy, proxies, current_proxy_index)
    /\ UNCHANGED <<current_proxy_index, rotation_enabled>>

RemoveFailedProxies ==
    /\ proxies' = remove_failed_proxies(proxies)
    /\ last' = Call("remove_failed_proxies", NoProxy,
                    Len(proxies) - Len(remove_failed_proxies(proxies)),
                    proxies, current_proxy_index)
    /\ UNCHANGED <<current_proxy_index, rotation_enabled>>

EnableRotation ==
    /\ rotation_enabled' = TRUE
    /\ last' = Call("enable_rotation", NoProxy, NoProxy, proxies, current_proxy_index)
    /\ UNCHANGED <<proxies, current_proxy_index>>

DisableRotation ==
    /\ rotation_enabled' = FALSE
    /\ last' = Call("disable_rotation", NoProxy, NoProxy, proxies, current_proxy_index)
    /\ UNCHANGED <<proxies, current_proxy_index>>

\* validate_proxy(proxy) whose probe fails: the except branch
ValidateProxyFailed ==
    \E i \in 1..Len(proxies) :
        /\ proxies[i].failure_count < MaxFailures
        /\ proxies' = [proxies EXCEPT ![i] = validate_proxy(@, FALSE)]
        /\ last' = Call("validate_proxy_failed", i, NoProxy, proxies, current_proxy_index)
        /\ UNCHANGED <<current_proxy_index, rotation_enabled>>

\* validate_proxy(proxy) whose probe answers 200
ValidateProxyOk ==
    \E i \in 1..Len(proxies) :
        /\ proxies[i].success_count < MaxSuccess
        /\ proxies' = [proxies EXCEPT ![i] = validate_proxy(@, TRUE)]
        /\ last' = Call("validate_proxy_ok", i, NoProxy, proxies, current_proxy_index)
        /\ UNCHANGED <<current_proxy_index, rotation_enabled>>

\* validate_proxy(proxy) whose probe answers 200 and whose geolocation step
\* then raises: the statistics of the success are already written when the
\* except branch runs
ValidateProxyLate ==
    \E i \in 1..Len(proxies) :
        /\ proxies[i].success_count < MaxSuccess
        /\ proxies[i].failure_count < MaxFailures
        /\ proxies' = [proxies EXCEPT ![i] = validate_proxy(validate_proxy(@, TRUE), FALSE)]
        /\ last' = Call("validate_proxy_late", i, NoProxy, proxies, current_proxy_index)
        /\ UNCHANGED <<current_proxy_index, rotation_enabled>>

NoRun ==
    /\ streak = 0
    /\ streak_n = 0
    /\ origin = NoProxy
    /\ visited = <<>>

(***************************************************************************)
(* Rotation scenario: a pool seeded with add_proxy and validated as a whole *)
(* while the network is down or up, pruning, and runs of consecutive       *)
(* rotate_proxy calls.                                                     *)
(***************************************************************************)

EndRun ==
    /\ streak' = 0
    /\ streak_n' = 0
    /\ origin' = NoProxy
    /\ visited' = <<>>

AllWorking(ps) == \A i \in 1..Len(ps) : ps[i].is_working

SeedProxy ==
    /\ Len(proxies) < RotationPool
    /\ proxies' = Append(proxies, ProxyInfo(FreshHost(proxies)))
    /\ UNCHANGED <<current_proxy_index, rotation_enabled, last>>
    /\ EndRun

ValidateAll ==
    \E ok \in BOOLEAN :
        /\ Len(proxies) >= 1
        /\ \A i \in 1..Len(proxies) :
              IF ok THEN proxies[i].success_count < MaxSuccess
                    ELSE proxies[i].failure_count < MaxFailures
        /\ proxies' = validate_all_proxies(proxies, ok)
        /\ UNCHANGED <<current_proxy_index, rotation_enabled, last>>
        /\ EndRun

Prune ==
    /\ proxies' = remove_failed_proxies(proxies)
    /\ UNCHANGED <<current_proxy_index, rotation_enabled, last>>
    /\ EndRun

\* rotate_proxy on a pool of working proxies with rotation enabled, following
\* the run of consecutive calls it belongs to
RotateInRun ==
    LET r == rotate_proxy(proxies, current_proxy_index, rotation_enabled)
    IN  /\ streak < MaxStreak
        /\ Len(proxies) >= 1 /\ AllWorking(proxies) /\ rotation_enabled
        /\ proxies' = r.proxies
        /\ current_proxy_index' = r.index
        /\ UNCHANGED <<rotation_enabled, last>>
        /\ streak' = streak + 1
        /\ visited' = Append(visited, r.proxies[r.ret].host)
        /\ IF streak = 0
           THEN /\ streak_n' = Len(proxies)
                /\ origin' = proxies[get_current_proxy(proxies, current_proxy_index).ret].host
           ELSE UNCHANGED <<streak_n, origin>>

(***************************************************************************)
(* IMDbScraper: the browser session and navigate_to_page                   *)
(***************************************************************************)

\* a navigate_to_page call: where it is, its argument, the pass it is in,
\* what it returned, the page.goto calls it made, the counters when it began,
\* how its last pass ended, and after a pass that was blocked the handles the
\* scraper held when the block was detected
NavCall(pc, retries, e0, v0) ==
    [pc |-> pc, retries |-> retries, attempt |-> 0, result |-> FALSE,
     gotos |-> 0, errors0 |-> e0, visited0 |-> v0,
     last_blocked |-> FALSE, last_raised |-> FALSE, prev_blocked |-> FALSE,
     prev_rotated |-> FALSE,
     old |-> [browser |-> 0, context |-> 0, page |-> 0]]

\* IMDbScraper.__init__: no handle, counters at 0, no call made
ScraperInit ==
    /\ browser = 0
    /\ context = 0
    /\ page = 0
    /\ open_handles = {}
    /\ launches = 0
    /\ pages_visited = 0
    /\ errors = 0
    /\ nav = NavCall("idle", 0, 0, 0)

Session == [browser |-> browser, context |-> context, page |-> page, open |-> open_handles]

\* closing a handle closes what was created from it: a context its page, a
\* browser its context and page (handles of one launch belong together)
Closes(kind, g) ==
    IF kind = "page" THEN {<<"page", g>>}
    ELSE IF kind = "context" THEN {<<"context", g>>, <<"page", g>>}
    ELSE {<<"browser", g>>, <<"context", g>>, <<"page", g>>}

\* the Playwright call at which close_browser may fail
CloseFailures == {"none", "page", "context", "browser"}

\* close_browser: closes page, context and browser in that order, each only
\* if it is set; the first close that raises ends the method (the exception
\* is logged), leaving that handle and the later ones as they were
close_sequence(s, fail) ==
    LET raised1 == s.page # 0 /\ fail = "page"
        s1 == IF s.page = 0 \/ raised1 THEN s
              ELSE [s EXCEPT !.open = @ \ Closes("page", s.page), !.page = 0]
        raised2 == raised1 \/ (s1.context # 0 /\ fail = "context")
        s2 == IF s1.context = 0 \/ raised2 THEN s1
              ELSE [s1 EXCEPT !.open = @ \ Closes("context", s1.context), !.context = 0]
        raised3 == raised2 \/ (s2.browser # 0 /\ fail = "browser")
        s3 == IF s2.browser = 0 \/ raised3 THEN s2
              ELSE [s2 EXCEPT !.open = @ \ Closes("browser", s2.browser), !.browser = 0]
    IN  [session |-> s3,
         raised |-> raised3,
         calls |-> (IF s.page # 0 THEN {"page"} ELSE {})
                   \cup (IF s.context # 0 /\ ~raised1 THEN {"context"} ELSE {})
                   \cup (IF s.browser # 0 /\ ~raised2 THEN {"browser"} ELSE {})]

\* the session close_browser leaves
close_browser(s, fail) == close_sequence(s, fail).session

\* close_browser without its except clause: the exception leaves
close_reraises(raised) == raised

\* the except Exception clause of close_browser: the exception is logged and
\* none leaves the method
close_raises(raised) == raised /\ FALSE

\* the step at which initialize_browser may fail
InitFailures ==
    {"none", "start", "launch", "new_context", "setup_context", "new_page", "stealth"}

InitStep(fail) ==
    CASE fail = "start" -> 0
      [] fail = "launch" -> 1
      [] fail = "new_context" -> 2
      [] fail = "setup_context" -> 3
      [] fail = "new_page" -> 4
      [] fail = "stealth" -> 5
      [] OTHER -> 6

\* initialize_browser as launch number g: assigns browser, context and page
\* as each is created; a step that raises ends the method with the exception
\* (re-raised after logging), keeping the assignments made before it
initialize_browser(s, fail, g) ==
    LET n  == InitStep(fail)
        s1 == IF n > 1 THEN [s EXCEPT !.browser = g, !.open = @ \cup {<<"browser", g>>}] ELSE s
        s2 == IF n > 2 THEN [s1 EXCEPT !.context = g, !.open = @ \cup {<<"context", g>>}] ELSE s1
        s3 == IF n > 4 THEN [s2 EXCEPT !.page = g, !.open = @ \cup {<<"page", g>>}] ELSE s2
    IN  [session |-> s3, raised |-> n < 6]

\* the proxy lookup of initialize_browser, made once playwright has started
InitPool(ps, idx, fail) ==
    IF has_pm /\ InitStep(fail) >= 1
    THEN get_current_proxy(ps, idx)
    ELSE [proxies |-> ps, index |-> idx, ret |-> NoProxy]

SetSession(s) ==
    /\ browser' = s.browser
    /\ context' = s.context
    /\ page' = s.page
    /\ open_handles' = s.open

NavIdle == nav.pc \in {"idle", "done"}

\* initialize_browser called on its own (__aenter__)
InitializeBrowser ==
    \E fail \in InitFailures :
        /\ NavIdle
        /\ launches < MaxLaunches
        /\ launches' = launches + 1
        /\ SetSession(initialize_browser(Session, fail, launches + 1).session)
        /\ LET r == InitPool(proxies, current_proxy_index, fail)
           IN  /\ proxies' = r.proxies
               /\ current_proxy_index' = r.index
        /\ UNCHANGED <<rotation_enabled, last, has_pm, pages_visited, errors, nav>>

\* close_browser called on its own (__aexit__)
CloseBrowser ==
    \E fail \in CloseFailures :
        /\ NavIdle
        /\ SetSession(close_browser(Session, fail))
        /\ UNCHANGED <<pmVars, has_pm, launches, pages_visited, errors, nav>>

\* navigate_to_page(url, retries) is called
StartNavigate ==
    \E retries \in 0..MaxRetries :
        /\ NavIdle
        /\ pages_visited < MaxStat
        /\ errors < MaxStat
        /\ nav' = NavCall("attempt", retries, errors, pages_visited)
        /\ UNCHANGED <<pmVars, has_pm, browser, context, page, open_handles, launches,
                       pages_visited, errors>>

\* what one pass of the retry loop meets: page.goto or the anti-detection
\* sequence raises, or the detection check reports clean or blocked
AttemptOutcomes == {"error", "clean", "blocked"}

NoHandles == [browser |-> 0, context |-> 0, page |-> 0]

\* a count that takes every pass for a visit
count_page_every_pass(n, clean) == n + 1

\* scraping_stats["pages_visited"] after a pass: incremented before return True
count_page(n, clean) == IF clean THEN n + 1 ELSE n

\* one pass of the retry loop of navigate_to_page, from page.goto to the
\* return or to the sleep before the next pass.
\*   went:    page.goto was called (self.page is None raises before it is)
\*   blocked: the detection check of this pass reported detected
\*   raised:  the pass ended in the except branch (goto, the anti-detection
\*            sequence or, after a block, initialize_browser raised)
NavAttempt ==
    \E out \in AttemptOutcomes, cfail \in CloseFailures, ifail \in InitFailures :
        LET went     == page # 0
            clean    == went /\ out = "clean"
            blocked  == went /\ out = "blocked"
            reinit   == blocked /\ has_pm
            rot      == rotate_proxy(proxies, current_proxy_index, rotation_enabled)
            closed   == close_browser(Session, cfail)
            init     == initialize_browser(closed, ifail, launches + 1)
            pool     == InitPool(rot.proxies, rot.index, ifail)
            raised   == ~went \/ out = "error" \/ (reinit /\ init.raised)
            lastpass == nav.attempt = nav.retries - 1
            gotos    == nav.gotos + (IF went THEN 1 ELSE 0)
        IN  /\ nav.pc = "attempt"
            /\ nav.attempt < nav.retries
            /\ ~reinit => (cfail = "none" /\ ifail = "none")
            /\ reinit => launches < MaxLaunches
            /\ IF reinit
               THEN /\ launches' = launches + 1
                    /\ proxies' = pool.proxies
                    /\ current_proxy_index' = pool.index
                    /\ SetSession(init.session)
               ELSE UNCHANGED <<launches, proxies, current_proxy_index, browser,
                                context, page, open_handles>>
            /\ pages_visited' = count_page(pages_visited, clean)
            /\ errors' = IF raised /\ lastpass THEN errors + 1 ELSE errors
            /\ nav' = IF clean
                      THEN [nav EXCEPT !.pc = "done", !.result = TRUE, !.gotos = gotos]
                      ELSE IF lastpass
                      THEN [nav EXCEPT !.pc = "done", !.result = FALSE, !.gotos = gotos,
                                       !.last_blocked = blocked, !.last_raised = raised]
                      ELSE [nav EXCEPT !.attempt = @ + 1, !.gotos = gotos,
                                       !.prev_blocked = blocked,
                                       !.prev_rotated = reinit,
                                       !.old = IF blocked
                                               THEN [browser |-> browser,
                                                     context |-> context, page |-> page]
                                               ELSE NoHandles]
            /\ UNCHANGED <<rotation_enabled, last, has_pm>>

\* the loop of navigate_to_page ends without a pass having returned
\* (retries = 0): return False
NavFallThrough ==
    /\ nav.pc = "attempt"
    /\ nav.attempt >= nav.retries
    /\ nav' = [nav EXCEPT !.pc = "done", !.result = FALSE]
    /\ UNCHANGED <<pmVars, has_pm, browser, context, page, open_handles, launches,
                   pages_visited, errors>>

\* get_scraping_statistics()["success_rate"], as numerator and denominator:
\* (pages_visited - errors) / max(pages_visited, 1)
success_rate(pv, er) == [num |-> pv - er, den |-> IF pv > 1 THEN pv ELSE 1]

\* reset_statistics
ResetStatistics ==
    /\ NavIdle
    /\ pages_visited' = 0
    /\ errors' = 0
    /\ nav' = NavCall("idle", 0, 0, 0)
    /\ UNCHANGED <<pmVars, has_pm, browser, context, page, open_handles, launches>>

\* a scraper as its caller builds it: with or without a proxy manager, whose
\* pool was filled with add_proxy
FreshPool(n) == [i \in 1..n |-> ProxyInfo(i)]

(***************************************************************************)
(* MediaDownloader and the StorageService it saves through                 *)
(***************************************************************************)
\* the except branch of _download_file_data on the pool, its
\* mark_proxy_failed left out
report_failure_rotate_only(ps, idx, rot) ==
    LET cur == get_current_proxy(ps, idx)
    IN  IF cur.ret = NoProxy
        THEN cur
        ELSE [rotate_proxy(cur.proxies, cur.index, rot) EXCEPT !.ret = cur.ret]

\* the except branch of _download_file_data on the pool: look up the current
\* proxy, mark it failed, rotate; ret is the proxy that was marked
report_failure(ps, idx, rot) ==
    LET cur == get_current_proxy(ps, idx)
    IN  IF cur.ret = NoProxy
        THEN cur
        ELSE LET m == mark_proxy_failed(cur.proxies, cur.index, rot, cur.ret)
             IN  [rotate_proxy(m.proxies, m.index, rot) EXCEPT !.ret = cur.ret]


\* Python's None
Null == "None"

\* the urls tried, and what urlparse / Path(...).suffix make of them
Urls == {"http://x/img.jpg", "http://x/image", "not a url"}

urlparse(url) ==
    CASE url = "http://x/img.jpg" -> [scheme |-> "http", netloc |-> "x", suffix |-> ".jpg"]
      [] url = "http://x/image"   -> [scheme |-> "http", netloc |-> "x", suffix |-> ""]
      [] OTHER                    -> [scheme |-> "", netloc |-> "", suffix |-> ""]

\* "image" in url.lower()
MentionsImage(url) == url \in {"http://x/image"}

\* "video" in url.lower()
MentionsVideo(url) == url \in {}

\* _is_valid_url
is_valid_url(url) == urlparse(url).scheme # "" /\ urlparse(url).netloc # ""

\* mimetypes.guess_extension for the content types tried
guess_extension(content_type) ==
    IF content_type = "image/jpeg" THEN ".jpg" ELSE Null

\* _get_file_extension
get_file_extension(url, content_type) ==
    IF urlparse(url).suffix # ""
    THEN urlparse(url).suffix
    ELSE IF content_type # Null /\ guess_extension(content_type) # Null
    THEN guess_extension(content_type)
    ELSE IF MentionsImage(url) \/ content_type = "image/jpeg"
    THEN ".jpg"
    ELSE IF MentionsVideo(url) \/ content_type = "video/mp4"
    THEN ".mp4"
    ELSE ".bin"

\* datetime.now().strftime("%Y%m%d_%H%M%S") at second t
Timestamp(t) == <<"20240101", <<"000000", "000001", "000002", "000003">>[t + 1]>>

\* A file name is the sequence of the pieces that the code joins with "_"
\* (the extension is the last piece).
\* _generate_filename: movie_{movie_id}_{file_type}_{quality}_{timestamp}{extension}
generate_filename(url, movie_id, file_type, quality, t) ==
    <<"movie", movie_id, file_type, quality>> \o Timestamp(t)
        \o <<get_file_extension(url, Null)>>

\* StorageService._generate_safe_filename of movie_{movie_id}_{file_type}{ext}
\* with no prefix: {timestamp}_{name}{ext}
generate_safe_filename(movie_id, file_type, extension, t) ==
    Timestamp(t) \o <<"movie", movie_id, file_type, extension>>

\* a file of the directory of movie_id
FileAt(movie_id, name) == [dir |-> movie_id, name |-> name]

\* no file name
NoFile == <<>>

\* _check_existing_file: the file found, or none
check_existing_file(fs, filename, movie_id) ==
    IF FileAt(movie_id, filename) \in fs THEN filename ELSE NoFile

\* what one HTTP attempt meets: no response at all, or a response with its
\* status, the Content-Length (NoLength: none) and Content-Type it declares,
\* and the number of bytes its body gives when read (-1: reading raises)
NoLength == 0 - 1
TooLarge == MaxFileSize + 1
Responses ==
    { [status |-> 0,   content_length |-> NoLength, content_type |-> Null, body |-> 0],
      [status |-> 403, content_length |-> NoLength, content_type |-> Null, body |-> 0],
      [status |-> 200, content_length |-> NoLength, content_type |-> "image/jpeg", body |-> 50],
      [status |-> 200, content_length |-> 50, content_type |-> Null, body |-> 50],
      [status |-> 200, content_length |-> TooLarge, content_type |-> "image/jpeg", body |-> TooLarge],
      [status |-> 200, content_length |-> NoLength, content_type |-> "image/jpeg", body |-> TooLarge],
      [status |-> 200, content_length |-> NoLength, content_type |-> "image/jpeg", body |-> 0],
      [status |-> 200, content_length |-> NoLength, content_type |-> "image/jpeg", body |-> -1] }

\* str(e) of the exception an attempt ends with ("" is str(asyncio.TimeoutError()))
AttemptError(resp) ==
    IF resp.status = 0 THEN ""
    ELSE IF resp.status # 200 THEN "403, message=''"
    ELSE IF resp.content_length > MaxFileSize
    THEN "File too large"
    ELSE IF resp.body = -1 THEN "Response payload is not completed"
    ELSE Null

DownloadArgs ==
    [url : Urls, movie_id : {"7"}, file_type : {"poster"},
     quality : {"high", "original"}, force_download : BOOLEAN]

NoArgs == [url |-> Null, movie_id |-> Null, file_type |-> Null, quality |-> Null,
           force_download |-> FALSE]

\* download_result as download_media_file first builds it
NewResult == [success |-> FALSE, error |-> Null, file_size |-> 0, filename |-> NoFile]

\* a download_media_file call: where it is, its arguments, the name it would
\* look for, the pass of the retry loop it is in, and what it did so far
DownloadCall(pc, args, filename) ==
    [pc |-> pc, args |-> args, filename |-> filename, attempt |-> 0,
     fetches |-> 0,            \* session.get calls
     reads |-> 0,              \* response.read calls
     oversize_reads |-> 0,     \* of them, on a response declared too large
     http_failures |-> 0,      \* attempts with no response or a non-200 status
     marks |-> 0,              \* mark_proxy_failed calls
     routes |-> <<>>,          \* the proxy each session.get went through
     failures0 |-> 0,          \* sum of failure_count when the call began
     sleeps |-> <<>>,          \* the delays slept between attempts
     invalid |-> FALSE,        \* a validation failure was detected
     after_invalid |-> 0,      \* session.get and sleep calls made after it
     oversize_declared |-> FALSE,
     data |-> 0, extension |-> Null,
     escaped |-> FALSE,        \* an exception left download_media_file
     result |-> NewResult]

SumFailures(ps) ==
    LET RECURSIVE Sum(_)
        Sum(n) == IF n = 0 THEN 0 ELSE ps[n].failure_count + Sum(n - 1)
    IN  Sum(Len(ps))

\* MediaDownloader.__init__
DownloaderInit ==
    /\ files = {}
    /\ now = 0
    /\ download_stats = [total_downloads |-> 0, successful_downloads |-> 0,
                         failed_downloads |-> 0, total_bytes |-> 0]
    /\ dl = DownloadCall("idle", NoArgs, NoFile)
    /\ prev = [args |-> NoArgs, success |-> FALSE]

\* download_media_file with an except clause that re-raises
Failed_reraise(call, err) ==
    [call EXCEPT !.pc = "done", !.escaped = TRUE]

\* the except and finally clauses of download_media_file for an exception
\* whose text is err
Failed(call, err) ==
    [call EXCEPT !.pc = "done", !.result.error = err]

CountFailure(stats) ==
    [stats EXCEPT !.failed_downloads = @ + 1, !.total_downloads = @ + 1]

\* a delay that does not grow
backoff_constant(attempt) == BackoffBase

\* the delay slept after the failed pass attempt: 2 ** attempt
backoff(attempt) == BackoffBase ^ attempt

\* download_media_file is called: URL validation, the file name, the
\* existing-file check
DownloadMediaFile ==
    \E args \in DownloadArgs :
        LET filename == generate_filename(args.url, args.movie_id, args.file_type,
                                          args.quality, now)
            existing == check_existing_file(files, filename, args.movie_id)
            call     == [DownloadCall("fetch", args, filename)
                            EXCEPT !.failures0 = SumFailures(proxies)]
        IN  /\ dl.pc \in {"idle", "done"}
            /\ download_stats.total_downloads < MaxDownloads
            /\ prev' = [args |-> dl.args, success |-> dl.result.success]
            /\ IF ~is_valid_url(args.url)
               THEN /\ dl' = [Failed(call, "Invalid URL") EXCEPT !.invalid = TRUE]
                    /\ download_stats' = CountFailure(download_stats)
               ELSE IF ~args.force_download /\ existing # NoFile
               THEN /\ dl' = [call EXCEPT !.pc = "done", !.result.success = TRUE,
                                          !.result.filename = existing]
                    /\ download_stats' = [download_stats EXCEPT !.total_downloads = @ + 1]
               ELSE /\ dl' = call
                    /\ UNCHANGED download_stats
            /\ UNCHANGED <<pmVars, runVars, navVars, files, now>>

\* one pass of the retry loop of _download_file_data, up to the return of
\* the data, the sleep before the next pass, or the exception of the last
\* pass reaching download_media_file
DownloadAttempt ==
    \E resp \in Responses :
        LET cur      == IF has_pm THEN get_current_proxy(proxies, current_proxy_index)
                        ELSE [proxies |-> proxies, index |-> current_proxy_index,
                              ret |-> NoProxy]
            err      == AttemptError(resp)
            declared == resp.status = 200 /\ resp.content_length > MaxFileSize
            read     == resp.status = 200 /\ ~declared
            rep      == IF has_pm
                        THEN report_failure(cur.proxies, cur.index, rotation_enabled)
                        ELSE cur
            lastpass == dl.attempt = RetryAttempts - 1
            seen     == [dl EXCEPT
                            !.fetches = @ + 1,
                            !.routes = Append(@, cur.ret),
                            !.after_invalid = @ + (IF dl.invalid THEN 1 ELSE 0),
                            !.reads = @ + (IF read THEN 1 ELSE 0),
                            !.http_failures = @ + (IF resp.status # 200 THEN 1 ELSE 0),
                            !.oversize_declared = @ \/ declared,
                            !.invalid = @ \/ declared,
                            !.extension = IF resp.status = 200
                                          THEN get_file_extension(dl.args.url, resp.content_type)
                                          ELSE @]
        IN  /\ dl.pc = "fetch"
            /\ dl.attempt < RetryAttempts
            /\ IF err = Null
               THEN \* the data is returned to download_media_file
                    /\ proxies' = IF cur.ret # NoProxy
                                  THEN mark_proxy_success(cur.proxies, cur.ret)
                                  ELSE cur.proxies
                    /\ current_proxy_index' = cur.index
                    /\ IF resp.body = 0
                       THEN /\ dl' = Failed(seen, "No data downloaded")
                            /\ download_stats' = CountFailure(download_stats)
                       ELSE IF resp.body > MaxFileSize
                       THEN /\ dl' = [Failed(seen, "File too large") EXCEPT !.invalid = TRUE]
                            /\ download_stats' = CountFailure(download_stats)
                       ELSE /\ dl' = [seen EXCEPT !.pc = "save", !.data = resp.body]
                            /\ UNCHANGED download_stats
               ELSE \* the except branch
                    /\ proxies' = rep.proxies
                    /\ current_proxy_index' = rep.index
                    /\ LET marked == [seen EXCEPT !.marks = @ + (IF rep.ret # NoProxy THEN 1 ELSE 0)]
                       IN  IF lastpass
                           THEN /\ dl' = Failed(marked, err)
                                /\ download_stats' = CountFailure(download_stats)
                           ELSE /\ dl' = [marked EXCEPT
                                            !.attempt = @ + 1,
                                            !.sleeps = Append(@, backoff(dl.attempt)),
                                            !.after_invalid = @ + (IF marked.invalid THEN 1 ELSE 0)]
                                /\ UNCHANGED download_stats
            /\ UNCHANGED <<rotation_enabled, last, runVars, navVars, files, now, prev>>

\* StorageService.save_downloaded_media and the rest of download_media_file
DownloadSave ==
    \E written \in BOOLEAN :
        LET name == generate_safe_filename(dl.args.movie_id, dl.args.file_type,
                                           dl.extension, now)
        IN  /\ dl.pc = "save"
            /\ IF written
               THEN /\ files' = files \cup {FileAt(dl.args.movie_id, name)}
                    /\ dl' = [dl EXCEPT !.pc = "done", !.result.success = TRUE,
                                        !.result.file_size = dl.data,
                                        !.result.filename = name]
                    /\ download_stats' =
                           [download_stats EXCEPT !.successful_downloads = @ + 1,
                                                  !.total_bytes = @ + dl.data,
                                                  !.total_downloads = @ + 1]
               ELSE /\ files' = files
                    /\ dl' = Failed(dl, "Failed to save file")
                    /\ download_stats' = CountFailure(download_stats)
            /\ UNCHANGED <<pmVars, runVars, navVars, now, prev>>

\* a second passes
Tick ==
    /\ now < MaxClock
    /\ now' = now + 1
    /\ UNCHANGED <<pmVars, runVars, navVars, files, download_stats, dl, prev>>

(***************************************************************************)
(* MediaDownloader.download_multiple_files: the batch, its semaphore and   *)
(* its tasks                                                               *)
(***************************************************************************)

\* A request of a batch: the keyword arguments of one download_media_file
\* call.  A request that lacks a required key makes the call raise TypeError.
Requests ==
    { [url |-> "http://x/a.jpg", wellformed |-> TRUE],
      [url |-> "http://x/b.jpg", wellformed |-> TRUE],
      [url |-> "http://x/c.jpg", wellformed |-> FALSE] }

\* all sequences over S of length at most n
RECURSIVE SeqsUpTo(_, _)
SeqsUpTo(S, n) ==
    IF n = 0 THEN {<<>>}
    ELSE LET shorter == SeqsUpTo(S, n - 1)
         IN  shorter \cup {Append(q, x) : q \in {r \in shorter : Len(r) = n - 1}, x \in S}

\* what a task of the batch ends with: the dict download_media_file returned,
\* or the exception it raised.  task is the task that produced it.
TaskResult(i, req, raised, success, error) ==
    [task |-> i, request |-> req, raised |-> raised, success |-> success,
     error |-> error]

NoResult == TaskResult(0, [url |-> Null, wellformed |-> TRUE], FALSE, FALSE, Null)

PendingTask == [pc |-> "pending", result |-> NoResult]

\* the results in the order the tasks completed
gather_as_completed(tasks, completed) ==
    [k \in 1..Len(completed) |-> tasks[completed[k]].result]

\* asyncio.gather(*tasks, return_exceptions=True): the results in the order
\* the tasks were given
gather(tasks, completed) ==
    [i \in 1..Len(tasks) |-> tasks[i].result]

\* the loop over the gathered results: an exception becomes a failure result
ProcessResults(results) ==
    [i \in 1..Len(results) |->
        IF results[i].raised
        THEN [results[i] EXCEPT !.raised = FALSE, !.success = FALSE]
        ELSE results[i]]

\* tasks inside "async with semaphore"
InFlight == {i \in 1..Len(batch.tasks) : batch.tasks[i].pc = "running"}

Waiting == {i \in 1..Len(batch.tasks) : batch.tasks[i].pc = "pending"}

\* a semaphore that always lets the task in
SemaphoreFree_unbounded(in_flight, max_concurrent) == in_flight >= 0

\* asyncio.Semaphore(max_concurrent).acquire does not block
SemaphoreFree(in_flight, max_concurrent) == in_flight < max_concurrent

BatchIdle ==
    batch = [pc |-> "idle", requests |-> <<>>, max_concurrent |-> 0,
             tasks |-> <<>>, completed |-> <<>>, download_results |-> <<>>]


\* download_multiple_files is called; max_concurrent None takes
\* concurrent_downloads
DownloadMultipleFiles ==
    \E reqs \in SeqsUpTo(Requests, MaxBatch),
       mc \in (1..MaxConcurrent) \cup {ConcurrentDownloads} :
        /\ batch.pc = "idle"
        /\ batch' = [pc |-> "gathering", requests |-> reqs, max_concurrent |-> mc,
                     tasks |-> [i \in 1..Len(reqs) |-> PendingTask],
                     completed |-> <<>>, download_results |-> <<>>]

\* download_with_semaphore of the task that waited longest enters the
\* semaphore and calls download_media_file; a malformed request raises at
\* the call and leaves the semaphore at once
StartDownload ==
    \E i \in Waiting :
        /\ batch.pc = "gathering"
        /\ \A j \in Waiting : i <= j
        /\ SemaphoreFree(Cardinality(InFlight), batch.max_concurrent)
        /\ IF batch.requests[i].wellformed
           THEN batch' = [batch EXCEPT !.tasks[i].pc = "running"]
           ELSE batch' = [batch EXCEPT
                            !.tasks[i] = [pc |-> "done",
                                          result |-> TaskResult(i, batch.requests[i], TRUE,
                                                                FALSE, "TypeError")],
                            !.completed = Append(@, i)]

\* download_media_file of a running task returns and the task leaves the
\* semaphore
FinishDownload ==
    \E i \in InFlight, success \in BOOLEAN :
        /\ batch.pc = "gathering"
        /\ batch' = [batch EXCEPT
                        !.tasks[i] = [pc |-> "done",
                                      result |-> TaskResult(i, batch.requests[i], FALSE, success,
                                                            IF success THEN Null ELSE "403, message=''")],
                        !.completed = Append(@, i)]

\* gather returns when every task is done; download_multiple_files
\* processes the results and returns them
ReturnResults ==
    /\ batch.pc = "gathering"
    /\ \A i \in 1..Len(batch.tasks) : batch.tasks[i].pc = "done"
    /\ batch' = [batch EXCEPT
                    !.pc = "returned",
                    !.download_results = ProcessResults(gather(batch.tasks, batch.completed))]

(***************************************************************************)
(* IMDbScraper.scrape_movie_details and _enrich_movie_data                 *)
(***************************************************************************)

\* How a navigate_to_page call ends, as the navigation section shows:
\* True with pages_visited counted, False with an error counted (the last
\* pass raised), or False with nothing counted (the last pass was blocked).
NavResults == {"visited", "error", "blocked"}

\* the statistics after a navigate_to_page call ending with r
NavigatedPages(r) == pages_visited + (IF r = "visited" THEN 1 ELSE 0)
NavigatedErrors(r) == errors + (IF r = "error" THEN 1 ELSE 0)

\* the pages of a title, in the order _enrich_movie_data takes them
AuxPages == <<"fullcredits", "mediaindex", "technical">>

ScrapeCall(pc, imdb_id) ==
    [pc |-> pc, imdb_id |-> imdb_id,
     calls |-> scrape.calls + 1,  \* scrape_movie_details calls so far
     visits |-> <<>>,        \* the pages navigate_to_page was called for
     sections |-> {},        \* the parts of movie_data that were filled
     failed |-> {},          \* the auxiliary pages that failed
     step |-> 0,             \* auxiliary pages done
     returned |-> "nothing", \* "None" or "record" once the call returned
     scraped0 |-> movies_scraped]

ScrapeIdle ==
    /\ movies_scraped = 0
    /\ scrape = [pc |-> "idle", imdb_id |-> Null, calls |-> 0, visits |-> <<>>, sections |-> {},
                 failed |-> {}, step |-> 0, returned |-> "nothing", scraped0 |-> 0]

\* one try block of _enrich_movie_data that lets its exception through
enrich_propagating(job, aux, nav_ok, extract_ok) ==
    IF nav_ok /\ extract_ok
    THEN [job EXCEPT !.visits = Append(@, aux), !.sections = @ \cup {aux},
                     !.step = @ + 1]
    ELSE [job EXCEPT !.visits = Append(@, aux), !.failed = @ \cup {aux},
                     !.step = Len(AuxPages), !.pc = "raised"]

\* one try block of _enrich_movie_data: navigate to the auxiliary page and
\* extract from it; a failure is logged and the section stays absent
enrich(job, aux, nav_ok, extract_ok) ==
    IF nav_ok /\ extract_ok
    THEN [job EXCEPT !.visits = Append(@, aux), !.sections = @ \cup {aux},
                     !.step = @ + 1]
    ELSE [job EXCEPT !.visits = Append(@, aux), !.failed = @ \cup {aux},
                     !.step = @ + 1]

\* scrape_movie_details is called and navigates to the title page
ScrapeMovieDetails ==
    \E r \in NavResults :
        LET job == [ScrapeCall("basic", "tt1") EXCEPT !.visits = <<"title">>]
        IN  /\ scrape.pc \in {"idle", "done"}
            /\ scrape.calls < MaxScrapes
            /\ pages_visited' = NavigatedPages(r)
            /\ errors' = NavigatedErrors(r)
            /\ scrape' = IF r = "visited" THEN job
                         ELSE [job EXCEPT !.pc = "done", !.returned = "None"]
            /\ UNCHANGED movies_scraped

\* _extract_movie_basic_info returns the primary fields or raises
ExtractBasicInfo ==
    \E ok \in BOOLEAN :
        /\ scrape.pc = "basic"
        /\ IF ok
           THEN /\ scrape' = [scrape EXCEPT !.pc = "enrich", !.sections = {"basic"}]
                /\ UNCHANGED errors
           ELSE /\ scrape' = [scrape EXCEPT !.pc = "done", !.returned = "None"]
                /\ errors' = errors + 1
        /\ UNCHANGED <<pages_visited, movies_scraped>>

\* the next try block of _enrich_movie_data; after the last one
\* scrape_movie_details counts the movie and returns the record
EnrichMovieData ==
    \E r \in NavResults, extract_ok \in BOOLEAN :
        LET job == enrich(scrape, AuxPages[scrape.step + 1], r = "visited", extract_ok)
        IN  /\ scrape.pc = "enrich"
            /\ scrape.step < Len(AuxPages)
            /\ pages_visited' = NavigatedPages(r)
            /\ errors' = NavigatedErrors(r)
            /\ IF job.pc = "raised"
               THEN /\ scrape' = [job EXCEPT !.pc = "done", !.returned = "None"]
                    /\ UNCHANGED movies_scraped
               ELSE IF job.step = Len(AuxPages)
               THEN /\ scrape' = [job EXCEPT !.pc = "done", !.returned = "record"]
                    /\ movies_scraped' = movies_scraped + 1
               ELSE /\ scrape' = job
                    /\ UNCHANGED movies_scraped

(***************************************************************************)
(* IMDbScraper.search_movies                                               *)
(***************************************************************************)

\* What a result page holds: result elements that parse into records,
\* result elements none of which parses into a record with a title, or no
\* result element at all (wait_for_selector then times out and raises).
PageContents == {"records", "unparsed", "absent"}

\* the records _extract_movies_from_search_page returns for page k
PageRecords(k, content) == IF content = "records" THEN <<k>> ELSE <<>>

SearchCall(pc, calls, max_pages) ==
    [pc |-> pc, calls |-> calls, max_pages |-> max_pages,
     page_num |-> 1,
     movies |-> <<>>,        \* the list being built
     extracted |-> <<>>,     \* the records of each page extracted, in order
     navigations |-> 0,      \* navigate_to_page calls
     stop |-> "none",        \* why the loop was left
     raised |-> FALSE,       \* an exception left search_movies
     returned |-> <<>>]      \* the list returned

SearchIdle == search = SearchCall("idle", 0, 0)

\* search_movies returns its list
Returned(call, why) ==
    [call EXCEPT !.pc = "done", !.stop = why, !.returned = call.movies]

\* an exception leaves search_movies
Raised(call, why) ==
    [call EXCEPT !.pc = "done", !.stop = why, !.raised = TRUE]

\* search_movies is called and navigates to the search page
SearchMovies ==
    \E max_pages \in 0..MaxPages, r \in NavResults :
        LET call == [SearchCall("extract", search.calls + 1, max_pages)
                        EXCEPT !.navigations = 1]
        IN  /\ search.pc \in {"idle", "done"}
            /\ search.calls < MaxSearches
            /\ pages_visited' = NavigatedPages(r)
            /\ errors' = NavigatedErrors(r)
            /\ search' = IF r # "visited" THEN Raised(call, "navigation")
                         ELSE IF call.page_num <= max_pages THEN call
                         ELSE Returned(call, "max_pages")

\* _extract_movies_from_search_page on the current page, and what the loop
\* does with its records
ExtractSearchPage ==
    \E content \in PageContents :
        LET page_movies == PageRecords(search.page_num, content)
            call == [search EXCEPT !.movies = @ \o page_movies,
                                   !.extracted = Append(@, page_movies)]
        IN  /\ search.pc = "extract"
            /\ search' = IF content = "absent" THEN Raised(search, "selector")
                         ELSE IF page_movies = <<>> THEN Returned(call, "zero_records")
                         ELSE IF search.page_num < search.max_pages
                         THEN [call EXCEPT !.pc = "next"]
                         ELSE Returned(call, "max_pages")
            /\ UNCHANGED <<pages_visited, errors>>

\* _get_next_page_url, the delay, and the navigation to the next page
NextSearchPage ==
    \E has_next \in BOOLEAN, r \in NavResults :
        /\ search.pc = "next"
        /\ IF ~has_next
           THEN /\ search' = Returned(search, "no_next")
                /\ UNCHANGED <<pages_visited, errors>>
           ELSE /\ pages_visited' = NavigatedPages(r)
                /\ errors' = NavigatedErrors(r)
                /\ search' = IF r = "visited"
                             THEN [search EXCEPT !.pc = "extract", !.page_num = @ + 1,
                                                 !.navigations = @ + 1]
                             ELSE Returned([search EXCEPT !.navigations = @ + 1],
                                           "navigation_failed")

(***************************************************************************)
(* close_browser observed: what it was called on and what it did           *)
(***************************************************************************)

CloseReport(called, pre, seq) ==
    [called |-> called,
     pre |-> pre,                          \* page, context, browser before the call
     calls |-> seq.calls,                  \* the handles whose close() was called
     raised |-> seq.raised,                \* one of them raised
     escaped |-> close_raises(seq.raised)] \* an exception left close_browser

ClosingIdle ==
    closing = CloseReport(FALSE, NoHandles,
                          [session |-> NoHandles, raised |-> FALSE, calls |-> {}])

\* close_browser is called (__aexit__, or a caller's exception handler), in
\* whatever state initialize_browser left the session
CloseBrowserObserved ==
    \E fail \in CloseFailures :
        /\ NavIdle
        /\ SetSession(close_browser(Session, fail))
        /\ closing' = CloseReport(TRUE,
                                  [browser |-> browser, context |-> context, page |-> page],
                                  close_sequence(Session, fail))
        /\ UNCHANGED <<pmVars, has_pm, launches, pages_visited, errors, nav>>

(***************************************************************************)
(* AntiDetection.check_for_bot_detection                                   *)
(***************************************************************************)

\* the step of the check that raises, if any
CheckFailures == {"none", "content", "selectors", "title"}

\* the number of indicators a page gives: the bot_indicators found in its
\* content, the captcha_selectors that match an element, its title, its url
CollectedIndicators(content_hits, selector_hits, title_hit, url_hit) ==
    content_hits + selector_hits + (IF title_hit THEN 1 ELSE 0)
        + (IF url_hit THEN 1 ELSE 0)

\* a confidence that is not clamped
confidence_unclamped(count) == count * ConfidenceStep

\* min(len(indicators) * 0.3, 1.0), in tenths
confidence(count) ==
    IF count * ConfidenceStep < FullConfidence THEN count * ConfidenceStep
    ELSE FullConfidence

\* the dict check_for_bot_detection returns: detection_result when the check
\* ran through, {"detected": False, "error": ...} when a step raised
check_for_bot_detection(content_hits, selector_hits, title_hit, url_hit, fail) ==
    LET count == CollectedIndicators(content_hits, selector_hits, title_hit, url_hit)
    IN  IF fail # "none"
        THEN [detected |-> FALSE, indicators |-> 0, confidence |-> 0, error |-> TRUE]
        ELSE IF count > 0
        THEN [detected |-> TRUE, indicators |-> count, confidence |-> confidence(count),
              error |-> FALSE]
        ELSE [detected |-> FALSE, indicators |-> 0, confidence |-> 0, error |-> FALSE]

DetectionIdle ==
    detection = [checked |-> FALSE, page |-> <<0, 0, FALSE, FALSE>>, matched |-> 0,
                 result |-> [detected |-> FALSE, indicators |-> 0, confidence |-> 0,
                             error |-> FALSE]]

\* check_for_bot_detection is called on a page
CheckForBotDetection ==
    \E content_hits \in 0..BotIndicators, selector_hits \in 0..CaptchaSelectors,
       title_hit \in BOOLEAN, url_hit \in BOOLEAN, fail \in CheckFailures :
        detection' =
            [checked |-> TRUE,
             page |-> <<content_hits, selector_hits, title_hit, url_hit>>,
             matched |-> CollectedIndicators(content_hits, selector_hits, title_hit, url_hit),
             result |-> check_for_bot_detection(content_hits, selector_hits, title_hit,
                                                url_hit, fail)]

(***************************************************************************)
(* ProxyManager.get_best_proxy                                             *)
(***************************************************************************)

\* avg_response_time values, in seconds
ResponseTimes == {0, 5, 10, 20}

\* the proxies get_best_proxy is tried on: any counters, response time and
\* flag
ScoredProxies ==
    [success_count : 0..MaxScoreCount, failure_count : 0..MaxScoreCount,
     avg_response_time : ResponseTimes, is_working : BOOLEAN]

\* calculate_score(proxy) as the fraction num / den, den > 0: 0.5 for a
\* proxy with no request, else success_rate - min(avg_response_time / 10, 1)
calculate_score(p) ==
    LET total_requests == p.success_count + p.failure_count
        penalty == IF p.avg_response_time < PenaltySeconds THEN p.avg_response_time
                   ELSE PenaltySeconds
    IN  IF total_requests = 0
        THEN [num |-> 1, den |-> 2]
        ELSE [num |-> PenaltySeconds * p.success_count - penalty * total_requests,
              den |-> PenaltySeconds * total_requests]

\* score a > score b
Greater(a, b) == a.num * b.den > b.num * a.den

\* max that keeps the last of the greatest
max_by_score_last(ps, candidates) ==
    LET RECURSIVE Scan(_, _)
        Scan(k, found) ==
            IF k > Len(candidates) THEN found
            ELSE IF ~Greater(calculate_score(ps[found]), calculate_score(ps[candidates[k]]))
            THEN Scan(k + 1, candidates[k])
            ELSE Scan(k + 1, found)
    IN  Scan(2, candidates[1])

\* max(working_proxies, key=calculate_score): the first of the greatest
max_by_score(ps, candidates) ==
    LET RECURSIVE Scan(_, _)
        Scan(k, found) ==
            IF k > Len(candidates) THEN found
            ELSE IF Greater(calculate_score(ps[candidates[k]]), calculate_score(ps[found]))
            THEN Scan(k + 1, candidates[k])
            ELSE Scan(k + 1, found)
    IN  Scan(2, candidates[1])

\* get_best_proxy on the pool ps: the pool it leaves and the proxy returned
get_best_proxy(ps) ==
    LET w == working_proxies(ps)
    IN  [proxies |-> ps,
         ret |-> IF w = <<>> THEN NoProxy ELSE max_by_score(ps, w)]

BestIdle == best = [called |-> FALSE, pool |-> <<>>, proxies |-> <<>>, ret |-> NoProxy]

\* get_best_proxy is called on a pool
GetBestProxy ==
    \E ps \in SeqsUpTo(ScoredProxies, MaxScored) :
        /\ ~best.called
        /\ best' = [called |-> TRUE, pool |-> ps,
                    proxies |-> get_best_proxy(ps).proxies, ret |-> get_best_proxy(ps).ret]

(***************************************************************************)
(* ProxyManager.health_check                                               *)
(***************************************************************************)

\* a status that calls a pool degraded when exactly half of it is working
health_status_half_degraded(total, working) ==
    IF total = 0 THEN "warning"
    ELSE IF working = 0 THEN "critical"
    ELSE IF 2 * working <= total THEN "degraded"
    ELSE "healthy"

\* the status health_check gives a pool of total proxies, working of them
\* working: len(working_proxies) < len(self.proxies) * 0.5 is degraded
health_status(total, working) ==
    IF total = 0 THEN "warning"
    ELSE IF working = 0 THEN "critical"
    ELSE IF 2 * working < total THEN "degraded"
    ELSE "healthy"

\* health_check on the pool ps: the report, and the pool and index that the
\* get_current_proxy call of its else branch leaves
health_check(ps, idx) ==
    LET working == Len(working_proxies(ps))
        cur == IF Len(ps) = 0
               THEN [proxies |-> ps, index |-> idx, ret |-> NoProxy]
               ELSE get_current_proxy(ps, idx)
    IN  [proxies |-> cur.proxies, index |-> cur.index,
         report |-> [status |-> health_status(Len(ps), working),
                     total_proxies |-> Len(ps),
                     working_proxies |-> working,
                     current_proxy |-> cur.ret]]

NoReport == [status |-> "none", total_proxies |-> 0, working_proxies |-> 0,
             current_proxy |-> NoProxy]

\* no health_check was the step just taken; ops counts the calls made
NoHealth(ops) == [called |-> FALSE, report |-> NoReport, before |-> NoReport, ops |-> ops]

HealthIdle == health = NoHealth(0)

\* health_check is called; before is the report of the health_check that
\* was the step before, if it was one
HealthCheck ==
    LET r == health_check(proxies, current_proxy_index)
    IN  /\ health.ops < MaxOps
        /\ proxies' = r.proxies
        /\ current_proxy_index' = r.index
        /\ last' = Call("health_check", NoProxy, r.report.current_proxy,
                        proxies, current_proxy_index)
        /\ health' = [called |-> TRUE, report |-> r.report, before |-> health.report,
                      ops |-> health.ops + 1]
        /\ UNCHANGED rotation_enabled

\* another ProxyManager call is the step
OtherCall ==
    /\ health.ops < MaxOps
    /\ health' = NoHealth(health.ops + 1)

\* the proxies a pool under health_check is made of: fresh, failed once,
\* failed for good, or failed often and working again
PoolMembers(h) ==
    { ProxyInfo(h),
      [ProxyInfo(h) EXCEPT !.failure_count = 1, !.is_working = FALSE],
      [ProxyInfo(h) EXCEPT !.failure_count = FailureThreshold + 1, !.is_working = FALSE],
      [ProxyInfo(h) EXCEPT !.failure_count = FailureThreshold + 1] }

\* the pools of n proxies with hosts 1..n
RECURSIVE PoolsOf(_)
PoolsOf(n) ==
    IF n = 0 THEN {<<>>}
    ELSE {Append(ps, p) : ps \in PoolsOf(n - 1), p \in PoolMembers(n)}

(***************************************************************************)
(* Downloads that run at once and share the ProxyManager, the statistics   *)
(* and the downloads directory.  A step is what one coroutine does from    *)
(* one await to the next.                                                  *)
(***************************************************************************)

\* a download_with_semaphore task that holds the semaphore
NewTask(args) ==
    [pc |-> "new", args |-> args, attempt |-> 0,
     route |-> NoProxy,          \* the proxy of the attempt under way
     failed_route |-> NoProxy,   \* the proxy of the attempt that failed last
     marked |-> NoProxy,         \* the proxy its except branch marked failed
     data |-> 0, extension |-> Null,
     outcome |-> "none"]         \* how download_media_file returned

CoroutinesIdle == coroutines = <<>>

\* everything the downloads leave alone
notSharedVars ==
    <<rotation_enabled, last, runVars, navVars, now, dl, prev, batch, movies_scraped,
      scrape, search, closing, detection, best, health, jobs, api>>

\* download_multiple_files creates the tasks and gathers them; max_concurrent
\* (5 by default) is not below their number, so each holds the semaphore
GatherTasks ==
    /\ coroutines = <<>>
    /\ \E n \in 1..Coroutines :
           \E reqs \in [1..n -> DownloadArgs] :
               coroutines' = [c \in 1..n |-> NewTask(reqs[c])]
    /\ UNCHANGED <<proxies, current_proxy_index, download_stats, files, notSharedVars>>

\* download_media_file up to the call of _download_file_data
BeginDownload(c) ==
    LET t        == coroutines[c]
        filename == generate_filename(t.args.url, t.args.movie_id, t.args.file_type,
                                      t.args.quality, now)
        existing == check_existing_file(files, filename, t.args.movie_id)
    IN  /\ t.pc = "new"
        /\ IF ~is_valid_url(t.args.url)
           THEN /\ coroutines' = [coroutines EXCEPT ![c].pc = "done",
                                                    ![c].outcome = "failure"]
                /\ download_stats' = CountFailure(download_stats)
           ELSE IF ~t.args.force_download /\ existing # NoFile
           THEN /\ coroutines' = [coroutines EXCEPT ![c].pc = "done",
                                                    ![c].outcome = "existing"]
                /\ download_stats' = [download_stats EXCEPT !.total_downloads = @ + 1]
           ELSE /\ coroutines' = [coroutines EXCEPT ![c].pc = "attempt"]
                /\ UNCHANGED download_stats
        /\ UNCHANGED <<proxies, current_proxy_index, files, notSharedVars>>

\* a pass of the retry loop up to session.get
SessionGet(c) ==
    LET cur == get_current_proxy(proxies, current_proxy_index)
    IN  /\ coroutines[c].pc = "attempt"
        /\ proxies' = cur.proxies
        /\ current_proxy_index' = cur.index
        /\ coroutines' = [coroutines EXCEPT ![c].pc = "awaiting", ![c].route = cur.ret]
        /\ UNCHANGED <<download_stats, files, notSharedVars>>

\* the rest of the pass: the response is read and the data returned, or the
\* except branch runs
ResponseArrives(c) ==
    \E resp \in Responses :
        LET t   == coroutines[c]
            err == AttemptError(resp)
            rep == report_failure(proxies, current_proxy_index, rotation_enabled)
        IN  /\ t.pc = "awaiting"
            /\ IF err = Null
               THEN /\ proxies' = IF t.route # NoProxy
                                  THEN mark_proxy_success(proxies, t.route)
                                  ELSE proxies
                    /\ UNCHANGED current_proxy_index
                    /\ IF resp.body = 0 \/ resp.body > MaxFileSize
                       THEN /\ coroutines' = [coroutines EXCEPT ![c].pc = "done",
                                                                ![c].outcome = "failure"]
                            /\ download_stats' = CountFailure(download_stats)
                       ELSE /\ coroutines' =
                                  [coroutines EXCEPT
                                      ![c].pc = "saving",
                                      ![c].data = resp.body,
                                      ![c].extension =
                                          get_file_extension(t.args.url, resp.content_type)]
                            /\ UNCHANGED download_stats
               ELSE /\ proxies' = rep.proxies
                    /\ current_proxy_index' = rep.index
                    /\ IF t.attempt = RetryAttempts - 1
                       THEN /\ coroutines' = [coroutines EXCEPT
                                                 ![c].pc = "done",
                                                 ![c].outcome = "failure",
                                                 ![c].failed_route = t.route,
                                                 ![c].marked = rep.ret]
                            /\ download_stats' = CountFailure(download_stats)
                       ELSE /\ coroutines' = [coroutines EXCEPT
                                                 ![c].pc = "attempt",
                                                 ![c].attempt = @ + 1,
                                                 ![c].failed_route = t.route,
                                                 ![c].marked = rep.ret]
                            /\ UNCHANGED download_stats
            /\ UNCHANGED <<files, notSharedVars>>

\* save_downloaded_media returns and download_media_file ends
SaveReturns(c) ==
    \E written \in BOOLEAN :
        LET t    == coroutines[c]
            name == generate_safe_filename(t.args.movie_id, t.args.file_type,
                                           t.extension, now)
        IN  /\ t.pc = "saving"
            /\ IF written
               THEN /\ files' = files \cup {FileAt(t.args.movie_id, name)}
                    /\ coroutines' = [coroutines EXCEPT ![c].pc = "done",
                                                        ![c].outcome = "success"]
                    /\ download_stats' =
                           [download_stats EXCEPT !.successful_downloads = @ + 1,
                                                  !.total_bytes = @ + t.data,
                                                  !.total_downloads = @ + 1]
               ELSE /\ files' = files
                    /\ coroutines' = [coroutines EXCEPT ![c].pc = "done",
                                                        ![c].outcome = "failure"]
                    /\ download_stats' = CountFailure(download_stats)
            /\ UNCHANGED <<proxies, current_proxy_index, notSharedVars>>

\* MediaDownloader.reset_statistics, between any two steps of the downloads
ResetDownloadStatistics ==
    /\ download_stats' = [total_downloads |-> 0, successful_downloads |-> 0,
                          failed_downloads |-> 0, total_bytes |-> 0]
    /\ UNCHANGED <<proxies, current_proxy_index, files, coroutines, notSharedVars>>

\* the files the downloads directory may hold when the downloader starts:
\* those under the names _generate_filename gives
FoundFiles ==
    {FileAt(a.movie_id,
            generate_filename(a.url, a.movie_id, a.file_type, a.quality, 0)) :
        a \in {b \in DownloadArgs : b.quality = "high" /\ is_valid_url(b.url)}}

(***************************************************************************)
(* The scraping endpoints of the API and the ScrapingCache behind them     *)
(***************************************************************************)

\* the job ids generate_job_id gives, in the order it gives them
JobIds == 1..MaxJobs

\* no record under a key (the cache returns None)
NoJob == "absent"

\* the largest filters.max_pages start_scraping_job accepts
MaxPagesAllowed == 20

\* the max_pages of the requests made
RequestedPages == {1, 20, 21}

\* ScrapingCache.cache_job_status: the record is stored under the job id
cache_job_status(records, job_id, status) == [records EXCEPT ![job_id] = status]

\* ScrapingCache.get_job_status: the record, or None
get_job_status(records, job_id) == records[job_id]

\* a request and its response: the endpoint, the job id, the max_pages of a
\* start, the status code, and the cache as it was before the request
Request(op, job_id, max_pages, code, records) ==
    [op |-> op, job_id |-> job_id, max_pages |-> max_pages, code |-> code,
     before |-> records]

\* the module as loaded: scraping_cache is None and no job id was generated
ApiIdle ==
    /\ jobs = [available |-> FALSE, records |-> [j \in JobIds |-> NoJob], issued |-> 0]
    /\ api = Request("none", 0, 0, 0, [j \in JobIds |-> NoJob])

\* init_cache / close_cache: scraping_cache is set / is None again; the
\* records stay in Redis
InitCache ==
    /\ ~jobs.available
    /\ jobs' = [jobs EXCEPT !.available = TRUE]
    /\ api' = Request("init_cache", 0, 0, 0, jobs.records)

CloseCache ==
    /\ jobs.available
    /\ jobs' = [jobs EXCEPT !.available = FALSE]
    /\ api' = Request("close_cache", 0, 0, 0, jobs.records)

\* POST /start
StartScrapingJob ==
    \E max_pages \in RequestedPages :
        LET job_id == jobs.issued + 1
        IN  /\ jobs.issued < MaxJobs
            /\ IF max_pages > MaxPagesAllowed
               THEN /\ jobs' = [jobs EXCEPT !.issued = job_id]
                    /\ api' = Request("start_scraping_job", job_id, max_pages, 400,
                                      jobs.records)
               ELSE /\ jobs' = [jobs EXCEPT
                                   !.issued = job_id,
                                   !.records = IF jobs.available
                                               THEN cache_job_status(@, job_id, "queued")
                                               ELSE @]
                    /\ api' = Request("start_scraping_job", job_id, max_pages, 200,
                                      jobs.records)

\* GET /jobs/{job_id}
GetJobStatus ==
    \E job_id \in JobIds :
        /\ UNCHANGED jobs
        /\ api' = Request("get_job_status", job_id, 0,
                          IF ~jobs.available THEN 503
                          ELSE IF get_job_status(jobs.records, job_id) = NoJob THEN 404
                          ELSE 200,
                          jobs.records)

\* POST /jobs/{job_id}/stop
StopScrapingJob ==
    \E job_id \in JobIds :
        LET job_data == get_job_status(jobs.records, job_id)
        IN  IF ~jobs.available
            THEN /\ UNCHANGED jobs
                 /\ api' = Request("stop_scraping_job", job_id, 0, 503, jobs.records)
            ELSE IF job_data = NoJob
            THEN /\ UNCHANGED jobs
                 /\ api' = Request("stop_scraping_job", job_id, 0, 404, jobs.records)
            ELSE IF job_data \notin {"queued", "running"}
            THEN /\ UNCHANGED jobs
                 /\ api' = Request("stop_scraping_job", job_id, 0, 400, jobs.records)
            ELSE /\ jobs' = [jobs EXCEPT !.records = cache_job_status(@, job_id, "stopped")]
                 /\ api' = Request("stop_scraping_job", job_id, 0, 200, jobs.records)

\* DELETE /jobs/{job_id}: the deletion from the cache is commented out
DeleteJob ==
    \E job_id \in JobIds :
        LET job_data == get_job_status(jobs.records, job_id)
        IN  /\ UNCHANGED jobs
            /\ api' = Request("delete_job", job_id, 0,
                              IF ~jobs.available THEN 503
                              ELSE IF job_data = NoJob THEN 404
                              ELSE IF job_data \in {"queued", "running"} THEN 400
                              ELSE 200,
                              jobs.records)

\* everything the endpoints leave alone
notApiVars ==
    <<pmVars, runVars, navVars, dlVars, batch, movies_scraped, scrape, search, closing,
      detection, best, health, coroutines>>

\* the variables no operation of the earlier sections changes
OpsIdle ==
    /\ BatchIdle /\ ScrapeIdle /\ SearchIdle /\ ClosingIdle /\ DetectionIdle /\ BestIdle
    /\ HealthIdle /\ CoroutinesIdle /\ ApiIdle

(***************************************************************************)
(* The specifications                                                      *)
(***************************************************************************)
Init == PMInit /\ NoRun /\ ScraperInit /\ DownloaderInit /\ OpsIdle /\ has_pm = TRUE

Next ==
    \/ (AddProxy /\ UNCHANGED runVars /\ UNCHANGED navVars /\ UNCHANGED dlVars /\ UNCHANGED opVars)
    \/ (GetCurrentProxy /\ UNCHANGED runVars /\ UNCHANGED navVars /\ UNCHANGED dlVars /\ UNCHANGED opVars)
    \/ (RotateProxy /\ UNCHANGED runVars /\ UNCHANGED navVars /\ UNCHANGED dlVars /\ UNCHANGED opVars)
    \/ (MarkProxyFailed /\ UNCHANGED runVars /\ UNCHANGED navVars /\ UNCHANGED dlVars /\ UNCHANGED opVars)
    \/ (MarkProxySuccess /\ UNCHANGED runVars /\ UNCHANGED navVars /\ UNCHANGED dlVars /\ UNCHANGED opVars)
    \/ (ResetProxyStats /\ UNCHANGED runVars /\ UNCHANGED navVars /\ UNCHANGED dlVars /\ UNCHANGED opVars)
    \/ (RemoveFailedProxies /\ UNCHANGED runVars /\ UNCHANGED navVars /\ UNCHANGED dlVars /\ UNCHANGED opVars)
    \/ (EnableRotation /\ UNCHANGED runVars /\ UNCHANGED navVars /\ UNCHANGED dlVars /\ UNCHANGED opVars)
    \/ (DisableRotation /\ UNCHANGED runVars /\ UNCHANGED navVars /\ UNCHANGED dlVars /\ UNCHANGED opVars)
    \/ (ValidateProxyFailed /\ UNCHANGED runVars /\ UNCHANGED navVars /\ UNCHANGED dlVars /\ UNCHANGED opVars)
    \/ (ValidateProxyOk /\ UNCHANGED runVars /\ UNCHANGED navVars /\ UNCHANGED dlVars /\ UNCHANGED opVars)
    \/ (ValidateProxyLate /\ UNCHANGED runVars /\ UNCHANGED navVars /\ UNCHANGED dlVars /\ UNCHANGED opVars)

Spec == Init /\ [][Next]_vars

RotationNext ==
    \/ (SeedProxy /\ UNCHANGED navVars /\ UNCHANGED dlVars /\ UNCHANGED opVars)
    \/ (ValidateAll /\ UNCHANGED navVars /\ UNCHANGED dlVars /\ UNCHANGED opVars)
    \/ (Prune /\ UNCHANGED navVars /\ UNCHANGED dlVars /\ UNCHANGED opVars)
    \/ (RotateInRun /\ UNCHANGED navVars /\ UNCHANGED dlVars /\ UNCHANGED opVars)

SpecRotation == Init /\ [][RotationNext]_vars

NavInit ==
    /\ has_pm \in BOOLEAN
    /\ \E n \in 0..NavPool : proxies = FreshPool(IF has_pm THEN n ELSE 0)
    /\ current_proxy_index = 0
    /\ rotation_enabled = TRUE
    /\ last = Call("init", NoProxy, NoProxy, <<>>, 0)
    /\ NoRun
    /\ ScraperInit
    /\ DownloaderInit
    /\ OpsIdle

NavNext ==
    \/ (InitializeBrowser /\ UNCHANGED runVars /\ UNCHANGED dlVars /\ UNCHANGED opVars)
    \/ (CloseBrowser /\ UNCHANGED runVars /\ UNCHANGED dlVars /\ UNCHANGED opVars)
    \/ (StartNavigate /\ UNCHANGED runVars /\ UNCHANGED dlVars /\ UNCHANGED opVars)
    \/ (NavAttempt /\ UNCHANGED runVars /\ UNCHANGED dlVars /\ UNCHANGED opVars)
    \/ (NavFallThrough /\ UNCHANGED runVars /\ UNCHANGED dlVars /\ UNCHANGED opVars)
    \/ (ResetStatistics /\ UNCHANGED runVars /\ UNCHANGED dlVars /\ UNCHANGED opVars)

SpecNav == NavInit /\ [][NavNext]_vars

\* a pass of the retry loop, or the fall out of it
NavStep ==
    (NavAttempt \/ NavFallThrough) /\ UNCHANGED runVars /\ UNCHANGED dlVars /\ UNCHANGED opVars

\* The event loop resumes navigate_to_page: page.goto runs under a timeout
\* and the sleeps are finite.
SpecNavFair == NavInit /\ [][NavNext]_vars /\ WF_vars(NavStep)

\* a downloader as its caller builds it: with or without a proxy manager,
\* whose pool was filled with add_proxy
DlInit ==
    /\ has_pm \in BOOLEAN
    /\ \E n \in 0..DlPool : proxies = FreshPool(IF has_pm THEN n ELSE 0)
    /\ current_proxy_index = 0
    /\ rotation_enabled = TRUE
    /\ last = Call("init", NoProxy, NoProxy, <<>>, 0)
    /\ NoRun
    /\ ScraperInit
    /\ DownloaderInit
    /\ OpsIdle

DlNext ==
    \/ (DownloadMediaFile /\ UNCHANGED opVars)
    \/ (DownloadAttempt /\ UNCHANGED opVars)
    \/ (DownloadSave /\ UNCHANGED opVars)
    \/ (Tick /\ UNCHANGED opVars)

SpecDl == DlInit /\ [][DlNext]_vars

\* everything download_multiple_files leaves alone
notBatchVars ==
    <<pmVars, runVars, navVars, dlVars, movies_scraped, scrape, search, closing,
      detection, best, obsVars>>

BatchNext ==
    \/ (DownloadMultipleFiles /\ UNCHANGED notBatchVars)
    \/ (StartDownload /\ UNCHANGED notBatchVars)
    \/ (FinishDownload /\ UNCHANGED notBatchVars)
    \/ (ReturnResults /\ UNCHANGED notBatchVars)

SpecBatch == DlInit /\ [][BatchNext]_vars

\* The event loop runs every task that can run, and a download_media_file
\* call ends (bounded retries, each under the session timeout).
SpecBatchFair ==
    /\ DlInit
    /\ [][BatchNext]_vars
    /\ WF_vars(StartDownload /\ UNCHANGED notBatchVars)
    /\ WF_vars(FinishDownload /\ UNCHANGED notBatchVars)
    /\ WF_vars(ReturnResults /\ UNCHANGED notBatchVars)

\* everything scrape_movie_details leaves alone
notScrapeVars == <<pmVars, runVars, has_pm, browser, context, page, open_handles,
                   launches, nav, dlVars, batch, search, closing, detection, best,
                   obsVars>>

ScrapeNext ==
    \/ (ScrapeMovieDetails /\ UNCHANGED notScrapeVars)
    \/ (ExtractBasicInfo /\ UNCHANGED notScrapeVars)
    \/ (EnrichMovieData /\ UNCHANGED notScrapeVars)

SpecScrape == NavInit /\ [][ScrapeNext]_vars

\* everything search_movies leaves alone
notSearchVars == <<pmVars, runVars, has_pm, browser, context, page, open_handles,
                   launches, nav, dlVars, batch, movies_scraped, scrape, closing,
                   detection, best, obsVars>>

SearchNext ==
    \/ (SearchMovies /\ UNCHANGED notSearchVars)
    \/ (ExtractSearchPage /\ UNCHANGED notSearchVars)
    \/ (NextSearchPage /\ UNCHANGED notSearchVars)

SpecSearch == NavInit /\ [][SearchNext]_vars

\* the operations changing neither the batch, the scrape nor the search
jobVars == <<batch, movies_scraped, scrape, search, detection, best, obsVars>>

SessionNext ==
    \/ (InitializeBrowser /\ UNCHANGED runVars /\ UNCHANGED dlVars /\ UNCHANGED opVars)
    \/ (CloseBrowserObserved /\ UNCHANGED runVars /\ UNCHANGED dlVars /\ UNCHANGED jobVars)

SpecSession == NavInit /\ [][SessionNext]_vars

\* check_for_bot_detection changes nothing of the scraper
DetectionNext ==
    \/ (CheckForBotDetection
        /\ UNCHANGED <<pmVars, runVars, navVars, dlVars, batch, movies_scraped, scrape,
                       search, closing, best, obsVars>>)

SpecDetection == NavInit /\ [][DetectionNext]_vars

\* get_best_proxy changes nothing
BestNext ==
    \/ (GetBestProxy
        /\ UNCHANGED <<pmVars, runVars, navVars, dlVars, batch, movies_scraped, scrape,
                       search, closing, detection, obsVars>>)

SpecBest == Init /\ [][BestNext]_vars

\* a pool after some use: any mix of fresh and failed proxies, the index
\* anywhere a rotation or a removal can leave it
HealthInit ==
    /\ \E n \in 0..HealthPool : proxies \in PoolsOf(n)
    /\ current_proxy_index \in 0..(HealthPool - 1)
    /\ rotation_enabled = TRUE
    /\ last = Call("init", NoProxy, NoProxy, <<>>, 0)
    /\ NoRun /\ ScraperInit /\ DownloaderInit /\ OpsIdle
    /\ has_pm = TRUE

\* what the ProxyManager calls leave alone
notPoolVars == <<runVars, navVars, dlVars, batch, movies_scraped, scrape, search,
                 closing, detection, best, coroutines, jobs, api>>

HealthNext ==
    \/ (HealthCheck /\ UNCHANGED notPoolVars)
    \/ (GetCurrentProxy /\ OtherCall /\ UNCHANGED notPoolVars)
    \/ (RotateProxy /\ OtherCall /\ UNCHANGED notPoolVars)
    \/ (MarkProxyFailed /\ OtherCall /\ UNCHANGED notPoolVars)
    \/ (MarkProxySuccess /\ OtherCall /\ UNCHANGED notPoolVars)
    \/ (ValidateProxyFailed /\ OtherCall /\ UNCHANGED notPoolVars)
    \/ (ValidateProxyOk /\ OtherCall /\ UNCHANGED notPoolVars)
    \/ (ValidateProxyLate /\ OtherCall /\ UNCHANGED notPoolVars)
    \/ (ResetProxyStats /\ OtherCall /\ UNCHANGED notPoolVars)
    \/ (RemoveFailedProxies /\ OtherCall /\ UNCHANGED notPoolVars)

SpecHealth == HealthInit /\ [][HealthNext]_vars

\* a downloader with a proxy manager, and a downloads directory that may
\* hold files when the downloader starts
SharedInit ==
    /\ has_pm = TRUE
    /\ \E n \in 0..DlPool : proxies = FreshPool(n)
    /\ current_proxy_index = 0
    /\ rotation_enabled = TRUE
    /\ last = Call("init", NoProxy, NoProxy, <<>>, 0)
    /\ NoRun
    /\ ScraperInit
    /\ files \in SUBSET FoundFiles
    /\ now = 0
    /\ download_stats = [total_downloads |-> 0, successful_downloads |-> 0,
                         failed_downloads |-> 0, total_bytes |-> 0]
    /\ dl = DownloadCall("idle", NoArgs, NoFile)
    /\ prev = [args |-> NoArgs, success |-> FALSE]
    /\ OpsIdle

SharedNext ==
    \/ GatherTasks
    \/ \E c \in 1..Len(coroutines) : BeginDownload(c)
    \/ \E c \in 1..Len(coroutines) : SessionGet(c)
    \/ \E c \in 1..Len(coroutines) : ResponseArrives(c)
    \/ \E c \in 1..Len(coroutines) : SaveReturns(c)
    \/ ResetDownloadStatistics

SpecShared == SharedInit /\ [][SharedNext]_vars

ApiNext ==
    \/ (InitCache /\ UNCHANGED notApiVars)
    \/ (CloseCache /\ UNCHANGED notApiVars)
    \/ (StartScrapingJob /\ UNCHANGED notApiVars)
    \/ (GetJobStatus /\ UNCHANGED notApiVars)
    \/ (StopScrapingJob /\ UNCHANGED notApiVars)
    \/ (DeleteJob /\ UNCHANGED notApiVars)

SpecApi == Init /\ [][ApiNext]_vars

(***************************************************************************)
(* Claims                                                                  *)
(***************************************************************************)

PreCount == Len(last.pre_working)
PreWorkingCount == Cardinality({i \in 1..PreCount : last.pre_working[i]})

\* C1: get_current_proxy on a non-empty pool returns a proxy of the pool whose
\* is_working flag is set when it is returned, whatever calls came before (a
\* pool with no working proxy is re-enabled first); it returns None only on
\* an empty pool.
C1_CurrentProxyIsWorking ==
    last.op = "get_current_proxy" =>
        IF PreCount = 0
        THEN last.ret = NoProxy
        ELSE /\ last.ret \in 1..Len(proxies)
             /\ proxies[last.ret].is_working

\* C1 witness: get_current_proxy was called on two proxies none of which
\* was working, and returned one of them.
C1_Witness ==
    /\ last.op = "get_current_proxy"
    /\ PreCount >= 2
    /\ PreWorkingCount = 0
    /\ last.ret # NoProxy

\* the hosts a run of rotate_proxy calls returned in its first n calls
VisitedIn(n) == {visited[k] : k \in 1..n}

\* C2 (as claimed): on a pool of N working proxies with rotation enabled, the
\* N-th consecutive rotate_proxy returns the proxy that was current before
\* the first one, the first N calls return every proxy of the pool, and the
\* proxies returned repeat with period N.
C2_RotationIsCyclic ==
    streak >= 1 =>
        /\ streak >= streak_n =>
               /\ visited[streak_n] = origin
               /\ VisitedIn(streak_n) = {proxies[i].host : i \in 1..Len(proxies)}
        /\ \A k \in 1..streak : k + streak_n <= streak => visited[k + streak_n] = visited[k]

\* the call was rotate_proxy with rotation disabled or at most one proxy
RotateWithoutAdvance ==
    /\ last.op = "rotate_proxy"
    /\ (~rotation_enabled \/ PreCount <= 1)

CurrentFlags == [i \in 1..Len(proxies) |-> proxies[i].is_working]

\* C3 (as claimed): rotate_proxy with rotation disabled or at most one proxy
\* leaves current_proxy_index and every is_working flag as they were.
C3_RotateIsNoOp ==
    RotateWithoutAdvance =>
        /\ current_proxy_index = last.pre_index
        /\ CurrentFlags = last.pre_working

\* C3 (amended): rotate_proxy with rotation disabled or at most one proxy never
\* advances the index; it leaves the index and the flags as they were when
\* some proxy is working and the index is below the number of working
\* proxies, and otherwise does what get_current_proxy does: a pool with no
\* working proxy is re-enabled, and an index that is not below the number of
\* working proxies becomes 0.
C3_RotateOnlyNormalises ==
    RotateWithoutAdvance =>
        LET eligible == IF PreWorkingCount = 0 THEN PreCount ELSE PreWorkingCount
        IN  /\ CurrentFlags = IF PreWorkingCount = 0
                              THEN [i \in 1..PreCount |-> TRUE]
                              ELSE last.pre_working
            /\ current_proxy_index = IF PreCount > 0 /\ last.pre_index >= eligible
                                     THEN 0
                                     ELSE last.pre_index

\* C3 witness: rotate_proxy was called with rotation disabled on two proxies
\* none of which was working, and re-enabled them.
C3_Witness ==
    /\ RotateWithoutAdvance
    /\ ~rotation_enabled
    /\ PreCount >= 2
    /\ PreWorkingCount = 0
    /\ \A i \in 1..Len(proxies) : proxies[i].is_working

Kinds == {"browser", "context", "page"}
Held == [browser |-> browser, context |-> context, page |-> page]

\* C4 (as claimed): when a pass of navigate_to_page was detected as blocked and
\* a proxy manager is present, then at the next page.goto of that call the
\* proxy has been rotated, the page, context and browser held when the block
\* was detected have been closed, and the scraper holds a new browser, a new
\* context and a new page, none of them null.
C4_ReinitializedBeforeRetry ==
    (nav.pc = "attempt" /\ nav.attempt < nav.retries /\ nav.prev_blocked /\ has_pm) =>
        /\ nav.prev_rotated
        /\ \A k \in Kinds :
              /\ Held[k] # 0
              /\ Held[k] # nav.old[k]
              /\ <<k, Held[k]>> \in open_handles
              /\ nav.old[k] # 0 => <<k, nav.old[k]>> \notin open_handles

\* C5 (as claimed): a navigate_to_page call that used up its retries (every
\* pass raised or was detected as blocked) returned False and incremented
\* scraping_stats["errors"].
C5_ExhaustionCountsError ==
    (nav.pc = "done" /\ nav.retries >= 1 /\ ~nav.result) =>
        errors = nav.errors0 + 1

\* C6: download_media_file never lets an exception escape: a finished call
\* has returned a result, and on every failure path (invalid URL, all retries
\* failing, empty or oversized data, storage save failing) the result has
\* success = False and an error string that is not None.
C6_FailuresAreReturned ==
    dl.pc = "done" =>
        /\ ~dl.escaped
        /\ ~dl.result.success => dl.result.error # Null

\* a call that failed in the storage save, after one that failed with all
\* its retries
C6_Witness ==
    /\ dl.pc = "done"
    /\ dl.result.error = "Failed to save file"
    /\ ~prev.success
    /\ prev.args.url # Null
    /\ download_stats.failed_downloads = 2

\* every HTTP attempt of the finished call failed (no response, or a status
\* other than 200)
AllAttemptsFailed ==
    /\ dl.pc = "done"
    /\ dl.fetches >= 1
    /\ dl.http_failures = dl.fetches

\* C7: when every HTTP attempt of a call fails, the call makes exactly
\* retry_attempts attempts and returns success = False with an error; with a
\* proxy manager that has a proxy, mark_proxy_failed is called once per
\* failed attempt, retry_attempts times in all, and the failure counts of
\* the pool rise by exactly that much (with no proxy there is none to mark).
C7_RetriesAndMarksAreExact ==
    AllAttemptsFailed =>
        /\ dl.fetches = RetryAttempts
        /\ ~dl.result.success
        /\ dl.result.error # Null
        /\ Len(dl.sleeps) = RetryAttempts - 1
        /\ IF has_pm /\ Len(proxies) >= 1
           THEN /\ dl.marks = RetryAttempts
                /\ SumFailures(proxies) = dl.failures0 + RetryAttempts
           ELSE /\ dl.marks = 0
                /\ SumFailures(proxies) = dl.failures0

\* a single-proxy pool whose proxy was marked for each of the three failed
\* attempts of the call
C7_Witness ==
    /\ AllAttemptsFailed
    /\ has_pm
    /\ Len(proxies) = 1
    /\ dl.failures0 = 0
    /\ proxies[1].failure_count = RetryAttempts
    /\ dl.result.error = "403, message=''"

\* C8: a validation failure (invalid URL, declared Content-Length or
\* downloaded size over max_file_size) fails fast: once it is detected the
\* call makes no further HTTP attempt and sleeps no backoff, and the failure
\* is reported in the result's error field.
C8_ValidationFailsFast ==
    dl.invalid =>
        /\ dl.after_invalid = 0
        /\ dl.pc = "done" => dl.result.error # Null

\* C9: when a 200 response declares a Content-Length over max_file_size,
\* response.read is not called for that response, no exception escapes, and
\* the result the call returns has success = False.
C9_DeclaredOversizeIsRejected ==
    dl.oversize_declared =>
        /\ dl.oversize_reads = 0
        /\ ~dl.escaped
        /\ dl.pc = "done" => ~dl.result.success

\* C10: after a successful download_media_file with force_download = False,
\* a second call with identical arguments performs no HTTP fetch.
C10_SecondCallDoesNotFetch ==
    (/\ dl.pc # "idle"
     /\ prev.success
     /\ prev.args = dl.args
     /\ ~dl.args.force_download) => dl.fetches = 0


\* C11: download_multiple_files returns exactly one result per request and
\* result i is the one task i produced for request i, whatever the order in
\* which the downloads completed and whichever failed or raised; a failure
\* of one request leaves the results of the others as their tasks made them.
C11_ResultsInRequestOrder ==
    batch.pc = "returned" =>
        /\ Len(batch.download_results) = Len(batch.requests)
        /\ \A i \in 1..Len(batch.requests) :
            /\ batch.download_results[i].task = i
            /\ batch.download_results[i].request = batch.requests[i]
            /\ ~batch.download_results[i].raised
            /\ batch.download_results[i].success = batch.tasks[i].result.success
            /\ batch.download_results[i].error = batch.tasks[i].result.error
            /\ ~batch.download_results[i].success => batch.download_results[i].error # Null

\* requests [A, B, C] where B failed, A and C succeeded, and C completed
\* first
C11_Witness ==
    /\ batch.pc = "returned"
    /\ Len(batch.requests) = 3
    /\ batch.completed = <<3, 2, 1>>
    /\ batch.download_results[1].success
    /\ ~batch.download_results[2].success
    /\ batch.download_results[3].success

\* C12: during a download_multiple_files call at most max_concurrent
\* download_media_file invocations have started and not finished, for any
\* batch size, and every request of the batch is started and completed:
\* the call returns, with every task done.
C12_AtMostMaxConcurrentInFlight ==
    /\ [](Cardinality(InFlight) <= batch.max_concurrent)
    /\ [](batch.pc = "returned" => \A i \in 1..Len(batch.tasks) : batch.tasks[i].pc = "done")
    /\ (batch.pc = "gathering" ~> batch.pc = "returned")

\* a batch larger than the cap: the semaphore is full and a task waits
C12_Witness ==
    /\ batch.pc = "gathering"
    /\ Len(batch.requests) > batch.max_concurrent
    /\ Cardinality(InFlight) = batch.max_concurrent
    /\ Waiting # {}


\* C13: the delay slept after failed attempt k (0-based) of
\* _download_file_data is 2^k seconds, so the delays strictly increase; a
\* delay is slept only between attempts, never after the final one.
C13_BackoffDoubles ==
    /\ \A k \in 1..Len(dl.sleeps) : dl.sleeps[k] = 2 ^ (k - 1)
    /\ \A k \in 1..(Len(dl.sleeps) - 1) : dl.sleeps[k] < dl.sleeps[k + 1]
    /\ Len(dl.sleeps) <= RetryAttempts - 1
    /\ dl.pc = "fetch" => Len(dl.sleeps) = dl.fetches
    /\ (dl.pc \in {"save", "done"} /\ dl.fetches >= 1) => Len(dl.sleeps) = dl.fetches - 1

\* a call whose three attempts failed: it slept after the first and the
\* second, and not after the third
C13_Witness ==
    /\ dl.pc = "done"
    /\ dl.fetches = RetryAttempts
    /\ ~dl.result.success
    /\ dl.sleeps = <<1, 2>>


\* C14: in scrape_movie_details the auxiliary pages are visited only after
\* the primary extraction succeeded, always in the order full credits,
\* media index, technical specs, each one attempted whether or not the
\* earlier ones failed; a failure of any of them never makes the call
\* return None: the record with the primary fields is returned and
\* movies_scraped is incremented.
C14_EnrichmentIsOrderedAndTolerant ==
    /\ Len(scrape.visits) > 1 => "basic" \in scrape.sections
    /\ \A k \in 2..Len(scrape.visits) : scrape.visits[k] = AuxPages[k - 1]
    /\ (scrape.pc = "done" /\ "basic" \in scrape.sections) =>
        /\ scrape.visits = <<"title">> \o AuxPages
        /\ scrape.returned = "record"
        /\ movies_scraped = scrape.scraped0 + 1
    /\ (scrape.pc = "done" /\ scrape.returned = "None") =>
        /\ scrape.visits = <<"title">>
        /\ movies_scraped = scrape.scraped0

\* the credits and the media page failed, the technical page was still
\* visited and extracted, and the record was returned
C14_Witness ==
    /\ scrape.pc = "done"
    /\ scrape.failed = {"fullcredits", "mediaindex"}
    /\ scrape.sections = {"basic", "technical"}
    /\ scrape.returned = "record"


\* the concatenation of the sequences of a sequence
RECURSIVE Flatten(_)
Flatten(qs) == IF qs = <<>> THEN <<>> ELSE Head(qs) \o Flatten(Tail(qs))

\* the pages that gave records
PagesWithRecords == Cardinality({k \in 1..Len(search.extracted) : search.extracted[k] # <<>>})

\* C15: search_movies terminates having extracted at most max_pages result
\* pages; it stops short of max_pages exactly when a page yields zero
\* records, there is no next-page link, or the navigation to the next page
\* fails; and it returns the concatenation, in page order, of the records of
\* the pages it extracted.
C15_SearchReturnsPagesInOrder ==
    /\ Len(search.extracted) <= search.max_pages
    /\ search.navigations <= 1 + search.max_pages
    /\ search.pc = "done" =>
        /\ ~search.raised
        /\ search.returned = Flatten(search.extracted)
        /\ PagesWithRecords < search.max_pages
               <=> search.stop \in {"zero_records", "no_next", "navigation_failed"}

\* C16: no public operation of the scraper raises to its caller when a
\* navigation or a selector wait fails; search_movies reports the failure
\* through the value it returns.
C16_SearchNeverRaises ==
    ~search.raised


\* C17: close_browser never raises, whatever the session: with none, some
\* or all of page, context and browser set, and also when closing a handle
\* fails; it calls close() only on handles that are set.
C17_CloseBrowserNeverRaises ==
    closing.called =>
        /\ ~closing.escaped
        /\ \A kind \in closing.calls : closing.pre[kind] # 0
        /\ ~closing.raised =>
               closing.calls = {kind \in {"page", "context", "browser"} : closing.pre[kind] # 0}

\* a partly initialized session (browser and context, no page) whose
\* context.close() raised
C17_Witness ==
    /\ closing.called
    /\ closing.pre.page = 0
    /\ closing.pre.context # 0
    /\ closing.pre.browser # 0
    /\ closing.raised
    /\ closing.calls = {"context"}
    /\ browser # 0


ValidatedAs(i, valid) ==
    /\ last'.arg = i
    /\ IF valid THEN last'.op = "validate_proxy_ok"
       ELSE last'.op \in {"validate_proxy_failed", "validate_proxy_late"}

\* C19: validate_proxy never raises: a call that fails returns valid=False,
\* increments that proxy's failure_count by exactly one and sets is_working
\* False; a call that succeeds returns valid=True, increments success_count
\* by exactly one and sets is_working True; no other proxy changes, nor the
\* pool's order, size or current index.
C19_ValidateUpdatesOnlyItsProxy ==
    [][\A i \in 1..Len(proxies) : \A valid \in BOOLEAN :
          ValidatedAs(i, valid) =>
              /\ Len(proxies') = Len(proxies)
              /\ \A j \in 1..Len(proxies) : j # i => proxies'[j] = proxies[j]
              /\ proxies'[i].host = proxies[i].host
              /\ current_proxy_index' = current_proxy_index
              /\ IF valid
                 THEN /\ proxies'[i].success_count = proxies[i].success_count + 1
                      /\ proxies'[i].failure_count = proxies[i].failure_count
                      /\ proxies'[i].is_working
                 ELSE /\ proxies'[i].failure_count = proxies[i].failure_count + 1
                      /\ ~proxies'[i].is_working]_vars

\* a working proxy of a pool of two was validated and failed; the other one
\* is as it was
C19_Witness ==
    /\ last.op = "validate_proxy_failed"
    /\ Len(proxies) = 2
    /\ last.pre_working = <<TRUE, TRUE>>
    /\ ~proxies[last.arg].is_working
    /\ proxies[last.arg].failure_count = 1
    /\ proxies[3 - last.arg].is_working


\* the proxies of the pool given to get_best_proxy that are working
BestCandidates == {i \in 1..Len(best.pool) : best.pool[i].is_working}

\* the score of proxy i of that pool as a fraction num / den: 1/2 for a
\* proxy with no request, else success_rate - min(avg_response_time/10, 1)
\* brought to the denominator 10 * total_requests
ScoreOf(i) ==
    LET p == best.pool[i]
        n == p.success_count + p.failure_count
        penalty == IF p.avg_response_time >= 10 THEN 10 ELSE p.avg_response_time
    IN  IF n = 0 THEN [num |-> 1, den |-> 2]
        ELSE [num |-> 10 * p.success_count - penalty * n, den |-> 10 * n]

\* C20: get_best_proxy returns, among the proxies with is_working true, one
\* of maximal score success_rate - min(avg_response_time/10, 1.0) (0.5 for
\* a proxy with no recorded request), the earliest in pool order when scores
\* tie; it returns None when no proxy is working, and leaves the pool as it
\* was.
C20_BestProxyIsFirstArgmax ==
    best.called =>
        /\ best.proxies = best.pool
        /\ IF BestCandidates = {}
           THEN best.ret = NoProxy
           ELSE /\ best.ret \in BestCandidates
                /\ \A j \in BestCandidates :
                       ScoreOf(j).num * ScoreOf(best.ret).den
                           <= ScoreOf(best.ret).num * ScoreOf(j).den
                /\ \A j \in BestCandidates :
                       j < best.ret =>
                           ScoreOf(j).num * ScoreOf(best.ret).den
                               < ScoreOf(best.ret).num * ScoreOf(j).den

\* two working proxies of equal score 0.5 (one untested, one with half its
\* requests successful and no delay): the first is returned
C20_Witness ==
    /\ best.called
    /\ Len(best.pool) = 2
    /\ BestCandidates = {1, 2}
    /\ best.pool[1].success_count + best.pool[1].failure_count = 0
    /\ best.pool[2].success_count = 1
    /\ best.pool[2].failure_count = 1
    /\ best.pool[2].avg_response_time = 0
    /\ best.ret = 1


\* C21: health_check reports 'warning' on an empty pool, 'critical' on a
\* non-empty pool with no working proxy, 'degraded' when fewer than half of
\* the proxies are working, 'healthy' otherwise; the working_proxies it
\* reports is the number of proxies with is_working set when it was called.
C21_HealthStatusFollowsWorkingRatio ==
    health.called =>
        /\ health.report.total_proxies = PreCount
        /\ health.report.working_proxies = PreWorkingCount
        /\ health.report.status = "warning" <=> PreCount = 0
        /\ health.report.status = "critical" <=> (PreCount > 0 /\ PreWorkingCount = 0)
        /\ health.report.status = "degraded"
               <=> (PreWorkingCount > 0 /\ 2 * PreWorkingCount < PreCount)
        /\ health.report.status = "healthy"
               <=> (PreWorkingCount > 0 /\ 2 * PreWorkingCount >= PreCount)

\* one proxy of three working: degraded
C21_Witness ==
    /\ health.called
    /\ PreCount = 3
    /\ PreWorkingCount = 1
    /\ health.report.status = "degraded"

\* the hosts of a pool, in order
HostsOf(ps) == [i \in 1..Len(ps) |-> ps[i].host]

C28_HealthCheckIsReadOnly ==
    health.called =>
        /\ [i \in 1..Len(proxies) |-> proxies[i].is_working] = last.pre_working
        /\ current_proxy_index = last.pre_index
        /\ health.before.status # "none" => health.report.status = health.before.status

\* C23: with a proxy manager whose pool holds at least two proxies, the
\* attempt that follows a failed attempt of _download_file_data goes through
\* a different proxy than the failed attempt did.
C23_NextAttemptUsesAnotherProxy ==
    (has_pm /\ Len(proxies) >= 2) =>
        \A k \in 1..(Len(dl.routes) - 1) : dl.routes[k + 1] # dl.routes[k]

\* C24: when downloads of one batch interleave at their awaits, the proxy an
\* attempt's except branch marks failed is the proxy that attempt's request
\* went through.
C24_FailureMarksTheProxyUsed ==
    \A c \in 1..Len(coroutines) : coroutines[c].marked = coroutines[c].failed_route

C25_NavigateIsBoundedAndCounts ==
    /\ [](nav.gotos <= nav.retries)
    /\ [](nav.pc = "done" =>
            /\ nav.result => (nav.gotos >= 1 /\ ~nav.last_blocked /\ ~nav.last_raised)
            /\ pages_visited = nav.visited0 + (IF nav.result THEN 1 ELSE 0))
    /\ (nav.pc = "attempt" ~> nav.pc = "done")

\* a call that returned True on its third pass
C25_Witness ==
    /\ nav.pc = "done"
    /\ nav.result
    /\ nav.retries = 3
    /\ nav.gotos = 3
    /\ pages_visited = nav.visited0 + 1

\* C27: the success_rate of get_scraping_statistics lies between 0 and 1 in
\* every state that navigate_to_page and reset_statistics calls reach.
C27_SuccessRateIsBetween0And1 ==
    LET r == success_rate(pages_visited, errors)
    IN  0 <= r.num /\ r.num <= r.den

\* C29: after close_browser returns, page, context and browser are all None,
\* whichever of them were set before and also when closing one of them
\* failed.
C29_NoHandleAfterClose ==
    closing.called => (page = 0 /\ context = 0 /\ browser = 0)

====
